---- MODULE Spec2Model ----
(***************************************************************************)
(* Model of the engine-py AI engine of workflow-automation: the automation *)
(* validator (validator.py, config.py), the generation-retry loop and the  *)
(* conversation endpoint (app.py), and the clarification tables            *)
(* (clarification.py, required_fields.py).                                 *)
(*                                                                         *)
(* Representation.  A Python str is a TLA+ string; the character-level     *)
(* operations of the code (lower, strip, startswith, the interval regex)   *)
(* are computed on its characters with Len, SubSeq and \o.  A JSON value   *)
(* whose Python type the code tests is a record [kind, val] with kind one  *)
(* of "str", "num", "dict", "list"; a dict is a function whose DOMAIN is   *)
(* its key set, a list is a sequence.  Python's None is the value NONE, of *)
(* kind "none"; a value that may be None is always held as such a record.  *)
(***************************************************************************)
EXTENDS Integers, Sequences, FiniteSets, TLC

VARIABLES
    dynamic_allowed_steps,  \* validator._dynamic_allowed_steps: NONE or JList(names)
    data,                   \* the dict handed to validate_automation / sanitize_automation
    verdict,                \* <<>>, or the pair validate_automation(data) returned
    allowed_seen,           \* NONE, or JList of what get_allowed_steps() gave that call
    sanitized,              \* NONE, or JDict of what sanitize_automation returned
    trigger,                \* the dict handed to validate_trigger
    trigger_verdict,        \* <<>>, or the pair validate_trigger(trigger) returned
    step_i,                 \* validate_automation: the step its loop is at, 0 outside it
    checked_with,           \* the allowed list each validate_step call so far was given
    registry_cache,         \* prompts._registry_cache
    fetched,                \* the last fetch_registry: the reply, what it returned, the
                            \* cache before it, and how many fetches there have been
    seen,                   \* what a reader last got from get_tool_prompt_text and
                            \* get_allowed_tool_names
    keys,                   \* the providers whose API key is configured
    pc,                     \* where the generate-automation request stands
    attempt,                \* generate_with_retry: the loop variable
    attempts,               \* generate_with_retry: the list of Attempt Records
    full_prompt,            \* the prompt of the current attempt, NONE before it is built
    response_text,          \* what call_llm returned to the current attempt, or NONE
    llm_calls,              \* how many times this request has invoked call_llm
    conv_pc,                \* where the conversation stands
    conv_context,           \* the context the caller sends with its next request
    conv_response,          \* NONE, or the answer of the last conversation request
    conv_answers,           \* how many answers the caller has sent
    conv_llm_calls,         \* how many times the conversation has invoked call_llm
    conv_turn,              \* the locals of the last conversation request: the field
                            \* answered, the text, the intent, the context decided on
    last_call,              \* the last call_llm: the providers it called, what it gave
    sleeps,                 \* the delays time.sleep has performed, in order
    result,                 \* NONE, what generate_with_retry returned, or what it raised
    response                \* NONE, or what the generate-automation endpoint answered

validator_vars == <<dynamic_allowed_steps, data, verdict, allowed_seen, sanitized>>
loop_vars == <<step_i, checked_with>>
trigger_vars == <<trigger, trigger_verdict>>
registry_vars == <<fetched, seen>>
retry_vars == <<registry_cache, keys, pc, attempt, attempts, full_prompt, response_text,
                llm_calls, last_call, sleeps, result, response>>

conv_vars == <<conv_pc, conv_context, conv_response, conv_answers, conv_llm_calls,
              conv_turn>>

vars == <<validator_vars, loop_vars, trigger_vars, registry_vars, retry_vars, conv_vars>>

(***************************************************************************)
(* Python str operations, on characters.                                   *)
(***************************************************************************)
Char(s, i) == SubSeq(s, i, i)

UPPERCASE == "ABCDEFGHIJKLMNOPQRSTUVWXYZ"
LOWERCASE == "abcdefghijklmnopqrstuvwxyz"
DIGITS == "0123456789"
WHITESPACE == " \t\n\r"

\* c in chars, for a one-character string c
CharIn(c, chars) == \E i \in 1..Len(chars) : Char(chars, i) = c

\* the lower-case letter of each upper-case letter, and the converse
LOWER_OF ==
    [c \in {Char(UPPERCASE, i) : i \in 1..Len(UPPERCASE)} |->
        Char(LOWERCASE, CHOOSE i \in 1..Len(UPPERCASE) : Char(UPPERCASE, i) = c)]

UPPER_OF ==
    [c \in {Char(LOWERCASE, i) : i \in 1..Len(LOWERCASE)} |->
        Char(UPPERCASE, CHOOSE i \in 1..Len(LOWERCASE) : Char(LOWERCASE, i) = c)]

LowerChar(c) == IF c \in DOMAIN LOWER_OF THEN LOWER_OF[c] ELSE c

UpperChar(c) == IF c \in DOMAIN UPPER_OF THEN UPPER_OF[c] ELSE c

RECURSIVE str_lower(_)
str_lower(s) ==
    IF Len(s) = 0 THEN ""
    ELSE LowerChar(Char(s, 1)) \o str_lower(SubSeq(s, 2, Len(s)))

RECURSIVE str_upper(_)
str_upper(s) ==
    IF Len(s) = 0 THEN ""
    ELSE UpperChar(Char(s, 1)) \o str_upper(SubSeq(s, 2, Len(s)))

RECURSIVE str_lstrip(_)
str_lstrip(s) ==
    IF Len(s) > 0 /\ CharIn(Char(s, 1), WHITESPACE)
    THEN str_lstrip(SubSeq(s, 2, Len(s)))
    ELSE s

RECURSIVE str_rstrip(_)
str_rstrip(s) ==
    IF Len(s) > 0 /\ CharIn(Char(s, Len(s)), WHITESPACE)
    THEN str_rstrip(SubSeq(s, 1, Len(s) - 1))
    ELSE s

str_strip(s) == str_rstrip(str_lstrip(s))

str_startswith(s, prefix) ==
    Len(s) >= Len(prefix) /\ SubSeq(s, 1, Len(prefix)) = prefix

\* sub in s
str_contains(s, sub) ==
    \E i \in 1..(Len(s) - Len(sub) + 1) : SubSeq(s, i, i + Len(sub) - 1) = sub

\* s.replace(old, new), for one-character old and new
RECURSIVE str_replace(_, _, _)
str_replace(s, old, new) ==
    IF Len(s) = 0 THEN ""
    ELSE (IF Char(s, 1) = old THEN new ELSE Char(s, 1))
             \o str_replace(SubSeq(s, 2, Len(s)), old, new)

IsCased(c) == c \in DOMAIN LOWER_OF \/ c \in DOMAIN UPPER_OF

\* s.title(): a cased character is upper-cased after an uncased one (or at
\* the start) and lower-cased after a cased one
RECURSIVE str_title_from(_, _)
str_title_from(s, after_cased) ==
    IF Len(s) = 0 THEN ""
    ELSE (IF after_cased THEN LowerChar(Char(s, 1)) ELSE UpperChar(Char(s, 1)))
             \o str_title_from(SubSeq(s, 2, Len(s)), IsCased(Char(s, 1)))

str_title(s) == str_title_from(s, FALSE)

\* sep.join(list)
RECURSIVE str_join(_, _)
str_join(sep, list) ==
    IF Len(list) = 0 THEN ""
    ELSE IF Len(list) = 1 THEN list[1]
    ELSE list[1] \o sep \o str_join(sep, Tail(list))

\* str(n) for the small naturals the model formats
str_of_int(n) == IF n \in 0..9 THEN Char(DIGITS, n + 1) ELSE "9+"

\* x in list
InList(x, list) == \E i \in 1..Len(list) : list[i] = x

(***************************************************************************)
(* JSON values.                                                            *)
(***************************************************************************)
NONE == [kind |-> "none", val |-> ""]
JStr(s) == [kind |-> "str", val |-> s]
JNum(lit) == [kind |-> "num", val |-> lit]      \* val: the literal's text
JDict(d) == [kind |-> "dict", val |-> d]
JList(l) == [kind |-> "list", val |-> l]
EmptyDict == <<>>

\* str(v) as an f-string prints it
py_str(v) == IF v.kind \in {"str", "num"} THEN v.val ELSE "<" \o v.kind \o ">"

\* d.get(key, default)
dict_get(d, key, default) == IF key \in DOMAIN d THEN d[key] ELSE default

\* d with d[key] = value
dict_set(d, key, value) ==
    [k \in DOMAIN d \cup {key} |-> IF k = key THEN value ELSE d[k]]

\* bool(v)
py_truthy(v) ==
    CASE v.kind = "str" -> Len(v.val) > 0
      [] v.kind = "num" -> v.val # "0"
      [] v.kind = "list" -> Len(v.val) > 0
      [] v.kind = "dict" -> DOMAIN v.val # {}
      [] OTHER -> FALSE

\* v in list, for a JSON value v and a list of names
PyIn(v, list) == v.kind = "str" /\ InList(v.val, list)

(***************************************************************************)
(* config.py                                                               *)
(***************************************************************************)
ALLOWED_STEPS ==
    << "fetch_weather", "fetch_stock_price", "fetch_crypto_price", "fetch_data",
       "fetch_url", "scrape_github", "scrape_hackernews", "scrape_reddit",
       "scrape_screener", "scrape_groww", "scrape_hack2skill", "scrape_twitter",
       "format_web_digest", "send_email", "send_sms", "send_whatsapp",
       "send_notification", "send_discord", "send_slack", "notify",
       "job_search", "job_apply", "condition", "delay" >>

ALLOWED_TRIGGERS == << "manual", "interval", "webhook", "event" >>

INTERVAL_UNITS == "smhdw"

\* INTERVAL_PATTERN.match(s): ^(\d{1,3})(s|m|h|d|w)$ as Python's re matches it,
\* where $ matches at the end of the string and also just before a newline
\* that ends the string.
INTERVAL_PATTERN_match(s) ==
    \E n \in 1..3 :
        /\ Len(s) >= n + 1
        /\ \A i \in 1..n : CharIn(Char(s, i), DIGITS)
        /\ CharIn(Char(s, n + 1), INTERVAL_UNITS)
        /\ \/ Len(s) = n + 1
           \/ Len(s) = n + 2 /\ Char(s, n + 2) = "\n"

validate_interval_format(interval) ==
    IF interval.kind # "str" THEN FALSE
    ELSE INTERVAL_PATTERN_match(str_lower(interval.val))

(***************************************************************************)
(* validator.py                                                            *)
(***************************************************************************)
get_allowed_steps ==
    IF dynamic_allowed_steps # NONE /\ Len(dynamic_allowed_steps.val) > 0
    THEN dynamic_allowed_steps.val
    ELSE ALLOWED_STEPS

validate_trigger(t) ==
    IF "type" \notin DOMAIN t
    THEN <<FALSE, JStr("Trigger missing 'type' field")>>
    ELSE IF ~PyIn(t["type"], ALLOWED_TRIGGERS)
    THEN <<FALSE, JStr("Invalid trigger type: " \o py_str(t["type"]) \o ". Allowed: "
                       \o str_join(", ", ALLOWED_TRIGGERS))>>
    ELSE IF t["type"] = JStr("interval") /\ "every" \notin DOMAIN t
    THEN <<FALSE, JStr("Interval trigger missing 'every' field")>>
    ELSE IF t["type"] = JStr("interval") /\ ~validate_interval_format(t["every"])
    THEN <<FALSE, JStr("Invalid interval format: '" \o py_str(t["every"])
                       \o "'. Use format like: 2m, 30s, 1h, 2d, 1w (number + unit)")>>
    ELSE IF t["type"] = JStr("rss") /\ "url" \notin DOMAIN t
    THEN <<FALSE, JStr("RSS trigger missing 'url' field (the RSS feed URL to poll)")>>
    ELSE <<TRUE, NONE>>

\* as StepRequires, testing only the first field of each type
StepRequires_first_only(step_type) ==
    CASE step_type \in {"fetch_stock_price", "fetch_crypto_price"} -> <<"symbol">>
      [] step_type \in {"send_email", "send_whatsapp", "send_sms"} -> <<"to">>
      [] step_type \in {"send_discord", "send_slack"} -> <<"webhook_url">>
      [] step_type = "job_search" -> <<"query">>
      [] step_type = "condition" -> <<"if">>
      [] step_type = "scrape_reddit" -> <<"subreddit">>
      [] step_type = "scrape_twitter" -> <<"username">>
      [] step_type \in {"http_request", "fetch_rss_feed"} -> <<"url">>
      [] step_type = "ai_summarize" -> <<"text">>
      [] step_type \in {"read_google_sheet", "write_google_sheet", "append_google_sheet"}
            -> <<"spreadsheetId">>
      [] OTHER -> <<>>

\* the fields validate_step requires of a step of the given type, in the
\* order it tests them
StepRequires(step_type) ==
    CASE step_type = "fetch_stock_price" -> <<"symbol">>
      [] step_type = "fetch_crypto_price" -> <<"symbol">>
      [] step_type = "send_email" -> <<"to">>
      [] step_type = "send_whatsapp" -> <<"to", "message">>
      [] step_type = "send_sms" -> <<"to", "message">>
      [] step_type = "send_discord" -> <<"webhook_url", "message">>
      [] step_type = "send_slack" -> <<"webhook_url", "message">>
      [] step_type = "job_search" -> <<"query">>
      [] step_type = "condition" -> <<"if">>
      [] step_type = "scrape_reddit" -> <<"subreddit">>
      [] step_type = "scrape_twitter" -> <<"username">>
      [] step_type = "http_request" -> <<"url">>
      [] step_type = "fetch_rss_feed" -> <<"url">>
      [] step_type = "ai_summarize" -> <<"text">>
      [] step_type \in {"read_google_sheet", "write_google_sheet", "append_google_sheet"}
            -> <<"spreadsheetId", "range">>
      [] OTHER -> <<>>

StepRequiresMessage(step_type, field) ==
    IF step_type = "condition"
    THEN "condition requires 'if' field (not 'condition')"
    ELSE step_type \o " requires '" \o field \o "'"

\* as validate_step, without the test against the allowed list
validate_step_any_type(step, allowed_steps) ==
    IF step.kind # "dict"
    THEN <<FALSE, JStr("Step must be an object")>>
    ELSE IF "type" \notin DOMAIN step.val
    THEN <<FALSE, JStr("Step missing 'type' field")>>
    ELSE IF step.val["type"].kind # "str"
    THEN <<TRUE, NONE>>
    ELSE LET step_type == step.val["type"].val
             required == StepRequires(step_type)
             absent == {i \in 1..Len(required) : required[i] \notin DOMAIN step.val}
         IN  IF absent # {}
             THEN <<FALSE, JStr(StepRequiresMessage(step_type,
                               required[CHOOSE i \in absent : \A j \in absent : i <= j]))>>
             ELSE <<TRUE, NONE>>

validate_step(step, allowed_steps) ==
    IF step.kind # "dict"
    THEN <<FALSE, JStr("Step must be an object")>>
    ELSE IF "type" \notin DOMAIN step.val
    THEN <<FALSE, JStr("Step missing 'type' field")>>
    ELSE IF ~PyIn(step.val["type"], allowed_steps)
    THEN <<FALSE, JStr("Unsupported step type: '" \o py_str(step.val["type"])
                       \o "'. Allowed types: " \o str_join(", ", allowed_steps))>>
    ELSE LET step_type == step.val["type"].val
             required == StepRequires(step_type)
             absent == {i \in 1..Len(required) : required[i] \notin DOMAIN step.val}
         IN  IF absent # {}
             THEN <<FALSE, JStr(StepRequiresMessage(step_type,
                               required[CHOOSE i \in absent : \A j \in absent : i <= j]))>>
             ELSE <<TRUE, NONE>>

\* as validate_automation_with, without the test for an empty steps list
validate_automation_with_empty_steps(d, allowed) ==
    IF "error" \in DOMAIN d
    THEN <<TRUE, NONE>>
    ELSE IF "name" \notin DOMAIN d \/ d["name"].kind # "str"
    THEN <<FALSE, JStr("Missing or invalid 'name' field")>>
    ELSE IF "trigger" \notin DOMAIN d \/ d["trigger"].kind # "dict"
    THEN <<FALSE, JStr("Missing or invalid 'trigger' field")>>
    ELSE IF "steps" \notin DOMAIN d \/ d["steps"].kind # "list"
    THEN <<FALSE, JStr("Missing or invalid 'steps' field")>>
    ELSE IF ~validate_trigger(d["trigger"].val)[1]
    THEN <<FALSE, validate_trigger(d["trigger"].val)[2]>>
    ELSE LET steps == d["steps"].val
             bad == {i \in 1..Len(steps) : ~validate_step(steps[i], allowed)[1]}
         IN  IF bad # {}
             THEN LET i == CHOOSE i \in bad : \A j \in bad : i <= j
                  IN  <<FALSE, JStr("Step " \o str_of_int(i) \o ": "
                                    \o validate_step(steps[i], allowed)[2].val)>>
             ELSE <<TRUE, NONE>>

\* as validate_automation_with, without the pass-through of error objects
validate_automation_with_no_pass_through(d, allowed) ==
    IF "name" \notin DOMAIN d \/ d["name"].kind # "str"
    THEN <<FALSE, JStr("Missing or invalid 'name' field")>>
    ELSE IF "trigger" \notin DOMAIN d \/ d["trigger"].kind # "dict"
    THEN <<FALSE, JStr("Missing or invalid 'trigger' field")>>
    ELSE IF "steps" \notin DOMAIN d \/ d["steps"].kind # "list"
    THEN <<FALSE, JStr("Missing or invalid 'steps' field")>>
    ELSE IF Len(d["steps"].val) = 0
    THEN <<FALSE, JStr("Automation must have at least one step")>>
    ELSE IF ~validate_trigger(d["trigger"].val)[1]
    THEN <<FALSE, validate_trigger(d["trigger"].val)[2]>>
    ELSE LET steps == d["steps"].val
             bad == {i \in 1..Len(steps) : ~validate_step(steps[i], allowed)[1]}
         IN  IF bad # {}
             THEN LET i == CHOOSE i \in bad : \A j \in bad : i <= j
                  IN  <<FALSE, JStr("Step " \o str_of_int(i) \o ": "
                                    \o validate_step(steps[i], allowed)[2].val)>>
             ELSE <<TRUE, NONE>>

\* as validate_automation_with, reporting the last defective step
validate_automation_with_last_step(d, allowed) ==
    IF "error" \in DOMAIN d
    THEN <<TRUE, NONE>>
    ELSE IF "name" \notin DOMAIN d \/ d["name"].kind # "str"
    THEN <<FALSE, JStr("Missing or invalid 'name' field")>>
    ELSE IF "trigger" \notin DOMAIN d \/ d["trigger"].kind # "dict"
    THEN <<FALSE, JStr("Missing or invalid 'trigger' field")>>
    ELSE IF "steps" \notin DOMAIN d \/ d["steps"].kind # "list"
    THEN <<FALSE, JStr("Missing or invalid 'steps' field")>>
    ELSE IF Len(d["steps"].val) = 0
    THEN <<FALSE, JStr("Automation must have at least one step")>>
    ELSE IF ~validate_trigger(d["trigger"].val)[1]
    THEN <<FALSE, validate_trigger(d["trigger"].val)[2]>>
    ELSE LET steps == d["steps"].val
             bad == {i \in 1..Len(steps) : ~validate_step(steps[i], allowed)[1]}
         IN  IF bad # {}
             THEN LET i == CHOOSE i \in bad : \A j \in bad : i >= j
                  IN  <<FALSE, JStr("Step " \o str_of_int(i) \o ": "
                                    \o validate_step(steps[i], allowed)[2].val)>>
             ELSE <<TRUE, NONE>>

validate_automation_with(d, allowed) ==
    IF "error" \in DOMAIN d
    THEN <<TRUE, NONE>>
    ELSE IF "name" \notin DOMAIN d \/ d["name"].kind # "str"
    THEN <<FALSE, JStr("Missing or invalid 'name' field")>>
    ELSE IF "trigger" \notin DOMAIN d \/ d["trigger"].kind # "dict"
    THEN <<FALSE, JStr("Missing or invalid 'trigger' field")>>
    ELSE IF "steps" \notin DOMAIN d \/ d["steps"].kind # "list"
    THEN <<FALSE, JStr("Missing or invalid 'steps' field")>>
    ELSE IF Len(d["steps"].val) = 0
    THEN <<FALSE, JStr("Automation must have at least one step")>>
    ELSE IF ~validate_trigger(d["trigger"].val)[1]
    THEN <<FALSE, validate_trigger(d["trigger"].val)[2]>>
    ELSE LET steps == d["steps"].val
             bad == {i \in 1..Len(steps) : ~validate_step(steps[i], allowed)[1]}
         IN  IF bad # {}
             THEN LET i == CHOOSE i \in bad : \A j \in bad : i <= j
                  IN  <<FALSE, JStr("Step " \o str_of_int(i) \o ": "
                                    \o validate_step(steps[i], allowed)[2].val)>>
             ELSE <<TRUE, NONE>>

validate_automation(d) == validate_automation_with(d, get_allowed_steps)

\* validate_automation, lines 56-75: the pair returned before the allowed
\* list is read, or <<>> when the checks of the steps are reached
validate_automation_before_steps(d) ==
    IF "error" \in DOMAIN d
    THEN <<TRUE, NONE>>
    ELSE IF "name" \notin DOMAIN d \/ d["name"].kind # "str"
    THEN <<FALSE, JStr("Missing or invalid 'name' field")>>
    ELSE IF "trigger" \notin DOMAIN d \/ d["trigger"].kind # "dict"
    THEN <<FALSE, JStr("Missing or invalid 'trigger' field")>>
    ELSE IF "steps" \notin DOMAIN d \/ d["steps"].kind # "list"
    THEN <<FALSE, JStr("Missing or invalid 'steps' field")>>
    ELSE IF Len(d["steps"].val) = 0
    THEN <<FALSE, JStr("Automation must have at least one step")>>
    ELSE IF ~validate_trigger(d["trigger"].val)[1]
    THEN <<FALSE, validate_trigger(d["trigger"].val)[2]>>
    ELSE <<>>

\* as sanitize_automation, deriving the description anew on every call, from
\* the description when there is one
sanitize_automation_redescribes(d) ==
    LET with_status ==
            IF "status" \notin DOMAIN d THEN dict_set(d, "status", JStr("draft")) ELSE d
    IN  dict_set(with_status, "description",
            JStr("Automation: " \o py_str(dict_get(d, "description",
                                                   dict_get(d, "name", JStr("Unnamed"))))))

sanitize_automation(d) ==
    LET with_status ==
            IF "status" \notin DOMAIN d THEN dict_set(d, "status", JStr("draft")) ELSE d
    IN  IF "description" \notin DOMAIN with_status
        THEN dict_set(with_status, "description",
                 JStr("Automation: " \o py_str(dict_get(d, "name", JStr("Unnamed")))))
        ELSE with_status

\* refresh_allowed_steps(): the registry answered with these tool names
refresh_allowed_steps_ok(tools) ==
    dynamic_allowed_steps' = JList(tools)

\* refresh_allowed_steps(): the fetch raised; the cached list is left alone
refresh_allowed_steps_failed ==
    UNCHANGED dynamic_allowed_steps

(***************************************************************************)
(* Inputs of the validator: bounded sets of candidate objects.             *)
(***************************************************************************)
MaxSteps == 2          \* longest steps list tried
MaxEveryLen == 5       \* longest generated `every` string tried

ABSENT == [kind |-> "absent", val |-> ""]

\* the dict holding the entries of f that are not ABSENT
Present(f) == [k \in {k \in DOMAIN f : f[k] # ABSENT} |-> f[k]]

RECURSIVE BoundedStrings(_, _)
BoundedStrings(alphabet, n) ==
    IF n = 0 THEN {""}
    ELSE LET shorter == BoundedStrings(alphabet, n - 1)
         IN  shorter \cup {s \o c : s \in shorter, c \in alphabet}

BoundedSeqs(S, n) == UNION {[1..k -> S] : k \in 0..n}

EveryAlphabet == {"5", "m", "M", "x", "\n"}
EveryExamples == {"5 minutes", "m5", "", "30s", "999w", "1000m", "2H", " 5m", "5m "}
EveryValues ==
    {ABSENT, JNum("5")}
        \cup {JStr(s) : s \in BoundedStrings(EveryAlphabet, MaxEveryLen) \cup EveryExamples}

TriggerTypeValues ==
    {ABSENT, JNum("5")}
        \cup {JStr(t) : t \in {"manual", "interval", "webhook", "rss", "event", "daily"}}

UrlValues == {ABSENT, JStr("https://example.com/feed")}

\* interval triggers with every `every`; every type with and without a url
TriggerInputs ==
    {Present([type |-> JStr("interval"), every |-> e]) : e \in EveryValues}
        \cup {Present([type |-> t, every |-> e, url |-> u]) :
                t \in TriggerTypeValues, e \in {ABSENT, JStr("5m")}, u \in UrlValues}

NameValues == {ABSENT, JStr("Stock Alert"), JNum("7")}

ErrorValues == {ABSENT, JStr("Cannot create this automation")}

TriggerValues ==
    { ABSENT, JStr("manual"),
      JDict(Present([type |-> JStr("manual")])),
      JDict(Present([type |-> JStr("interval"), every |-> JStr("5m")])),
      JDict(Present([type |-> JStr("interval"), every |-> JStr("5 minutes")])) }

StepPool ==
    { JStr("notify"),
      JDict(Present([message |-> JStr("hi")])),
      JDict(Present([type |-> JStr("notify"), message |-> JStr("hi")])),
      JDict(Present([type |-> JStr("condition"), condition |-> JStr("price<150")])),
      JDict(Present([type |-> JStr("condition"), if |-> JStr("price<150")])),
      JDict(Present([type |-> JStr("teleport"), to |-> JStr("mars")])) }

StepsValues ==
    {ABSENT, JStr("none")} \cup {JList(l) : l \in BoundedSeqs(StepPool, MaxSteps)}

StatusValues == {ABSENT, JStr("active")}
DescriptionValues == {ABSENT, JStr("Watches a stock")}

AutomationInputs ==
    {Present([error |-> e, name |-> n, trigger |-> t, steps |-> s,
              status |-> st, description |-> de]) :
        e \in ErrorValues, n \in NameValues, t \in TriggerValues, s \in StepsValues,
        st \in StatusValues, de \in DescriptionValues}

\* tool lists a registry answers with: none, and one that differs from the
\* fallback list both ways
RegistryToolLists ==
    { <<>>,
      << "fetch_stock_price", "condition", "send_whatsapp", "teleport" >> }

(***************************************************************************)
(* prompts.py: the registry cache and the two prompts                      *)
(***************************************************************************)
EmptyRegistryCache == [prompt_text |-> NONE, tool_names |-> NONE, version |-> NONE]

\* no fetch_registry call yet
NoFetch == [n |-> 0, reply |-> NONE, returned |-> NONE, before |-> EmptyRegistryCache]

\* no reader has read yet
NotRead == [prompt_text |-> NONE, tool_names |-> NONE]

\* what the registry endpoint gives fetch_registry: a failure of the request
\* (no connection, an error status, a body that is no JSON), or the JSON
\* value of the body
RegistryFailure(what) == [kind |-> what, val |-> ""]

\* len(v) is defined
py_has_len(v) == v.kind \in {"str", "list", "dict"}

\* fetch_registry(), the cache holding `cache` and the registry giving
\* `reply`: the cache after the call and the value returned (NONE for
\* None).  Lines 32-34 raise for a failed request, line 36 raises for a body
\* that is no object, and line 40 raises, after the three assignments, for
\* tool names that have no len(); every exception is caught at line 42.
fetch_registry(cache, reply) ==
    IF reply.kind # "dict"
    THEN [cache |-> cache, returned |-> NONE]
    ELSE LET written ==
                 [prompt_text |-> dict_get(reply.val, "promptText", JStr("")),
                  tool_names |-> dict_get(reply.val, "toolNames", JList(<<>>)),
                  version |-> dict_get(reply.val, "registryVersion", JStr("unknown"))]
         IN  [cache |-> written,
              returned |-> IF py_has_len(written.tool_names) THEN reply ELSE NONE]

\* fetch_registry(): the registry answered with the JSON object resp
fetch_registry_ok(resp) ==
    registry_cache' = fetch_registry(registry_cache, JDict(resp)).cache

\* refresh_registry(): the answer of POST /refresh-registry when
\* fetch_registry returned fetched_data
refresh_registry(fetched_data) ==
    IF fetched_data # NONE /\ py_truthy(fetched_data)
    THEN [kind |-> "json",
          val |-> [success |-> TRUE, message |-> "Registry refreshed",
                   tools |-> Len(dict_get(fetched_data.val, "toolNames", JList(<<>>)).val)]]
    ELSE [kind |-> "json",
          val |-> [success |-> FALSE, message |-> "Could not reach registry endpoint"]]

\* fetch_registry(): the request raised; None is returned
fetch_registry_failed ==
    UNCHANGED registry_cache

get_tool_prompt_text ==
    IF registry_cache.prompt_text # NONE /\ Len(registry_cache.prompt_text.val) > 0
    THEN registry_cache.prompt_text.val
    ELSE str_join("\n", [i \in 1..Len(ALLOWED_STEPS) |-> "- " \o ALLOWED_STEPS[i]])

\* as get_allowed_tool_names, falling back only when no list was cached
get_allowed_tool_names_any_cached ==
    IF registry_cache.tool_names # NONE
    THEN registry_cache.tool_names.val
    ELSE ALLOWED_STEPS

get_allowed_tool_names ==
    IF registry_cache.tool_names # NONE /\ Len(registry_cache.tool_names.val) > 0
    THEN registry_cache.tool_names.val
    ELSE ALLOWED_STEPS

\* A prompt is the record of the values substituted into its template.
build_generation_prompt(user_request) ==
    [kind |-> "generation", user_request |-> user_request,
     tool_prompt_text |-> get_tool_prompt_text,
     error |-> NONE, invalid_output |-> NONE, allowed_steps |-> ""]

RETRY_CORRECTION_PROMPT_format(error, invalid_output, user_request, allowed_steps) ==
    [kind |-> "correction", user_request |-> user_request,
     tool_prompt_text |-> "",
     error |-> error, invalid_output |-> invalid_output, allowed_steps |-> allowed_steps]

(***************************************************************************)
(* app.py: model output, extraction, the provider cascade                  *)
(***************************************************************************)
\* A model output is a text too long to spell out: the record of what it
\* says (body), its length, and what json.loads makes of the span
\* extract_json_from_response selects in it (json: a JSON value, or
\* UNPARSEABLE with the decoder's message).  A slice of it keeps the body
\* and shortens the length.
UNPARSEABLE == [kind |-> "unparseable", val |-> "Expecting value: line 1 column 1 (char 0)"]

Text(body, len, json) ==
    [kind |-> "text", val |-> [body |-> body, len |-> len, json |-> json]]

\* text[:n]
str_slice(text, n) ==
    [kind |-> "text",
     val |-> [text.val EXCEPT !.len = IF text.val.len <= n THEN text.val.len ELSE n]]

\* bool(text), for a str or None
text_truthy(text) == text # NONE /\ text.val.len > 0

NO_OUTPUT == Text("No output", 9, UNPARSEABLE)

RAW_OUTPUT_LIMIT == 500
INVALID_OUTPUT_LIMIT == 2000

\* extract_json_from_response: the parsed value, or ValueError
extract_json_from_response(text) ==
    IF text.val.json.kind = "unparseable"
    THEN [kind |-> "ValueError", val |-> "Failed to parse JSON: " \o text.val.json.val]
    ELSE text.val.json

\* as PROVIDERS, in the opposite order
PROVIDERS_reversed == << "Gemini", "OpenRouter", "HuggingFace", "Groq" >>

PROVIDERS == << "Groq", "HuggingFace", "OpenRouter", "Gemini" >>

ProviderOutcomes == {"ok", "http_429", "http_500", "http_502_quota", "timeout"}

\* as provider_error, with one text for every failure
provider_error_opaque(outcome) ==
    IF outcome = "ok" THEN "" ELSE "The request failed"

\* errors[name] as call_llm records it for a failed provider call
provider_error(outcome) ==
    CASE outcome = "http_429" -> "HTTP 429: Too Many Requests"
      [] outcome = "http_500" -> "HTTP 500: Internal Server Error"
      [] outcome = "http_502_quota" -> "HTTP 502: upstream quota exceeded (429)"
      [] outcome = "timeout" -> "The read operation timed out"
      [] OTHER -> ""

HTTPException(status_code, detail) ==
    [kind |-> "HTTPException", val |-> [status_code |-> status_code, detail |-> detail]]

\* select the elements of seq that satisfy Test (SelectSeq with a set)
Configured(seq, set) == SelectSeq(seq, LAMBDA p : p \in set)

\* call_llm, lines 188-223: the providers are tried in order; the text of
\* the first that answers is returned, and when none answers the errors are
\* counted and the HTTPException raised.
\* called: the providers called, in order; ret: the text, or the exception.
try_providers(configured, outcomes, text) ==
    LET providers == Configured(PROVIDERS, configured)
        unset == SelectSeq(PROVIDERS, LAMBDA p : p \notin configured)
        ok == {i \in 1..Len(providers) : outcomes[providers[i]] = "ok"}
        last == IF ok = {} THEN Len(providers)
                ELSE CHOOSE i \in ok : \A j \in ok : i <= j
        called == SubSeq(providers, 1, last)
        errors == [i \in 1..Len(unset) |-> <<unset[i], "API key not set">>]
                  \o [i \in 1..Len(providers) |->
                         <<providers[i], provider_error(outcomes[providers[i]])>>]
        rate_limited_count == Cardinality({i \in 1..Len(errors) : str_contains(errors[i][2], "429")})
        configured_count == Len(providers)
    IN  IF ok # {}
        THEN [called |-> called, ret |-> text]
        ELSE IF rate_limited_count >= configured_count /\ configured_count > 0
        THEN [called |-> called,
              ret |-> HTTPException(503, "All " \o str_of_int(configured_count)
                         \o " AI providers are rate limited (429). Please wait a minute and try again. Tip: Add more free API keys (GROQ_API_KEY, HUGGINGFACE_API_KEY) for extra fallbacks.")]
        ELSE [called |-> called,
              ret |-> HTTPException(500, "All AI providers failed. "
                         \o str_join(", ", [i \in 1..Len(errors) |->
                                               errors[i][1] \o ": " \o errors[i][2]]))]

\* as call_llm, without the test for an empty provider list
call_llm_unchecked(configured, outcomes, text) ==
    try_providers(configured, outcomes, text)

\* call_llm(full_prompt), when each configured provider p would answer
\* outcomes[p] and a successful provider would return text.
call_llm(configured, outcomes, text) ==
    IF Len(Configured(PROVIDERS, configured)) = 0
    THEN [called |-> <<>>,
          ret |-> HTTPException(500, "No AI provider API keys configured. Set at least one of: GEMINI_API_KEY, OPENROUTER_API_KEY, GROQ_API_KEY, HUGGINGFACE_API_KEY")]
    ELSE try_providers(configured, outcomes, text)

\* what the model keeps of one call_llm: the providers called, the value
\* returned or raised, and what each configured provider answered
Called(r, outcomes) == [called |-> r.called, ret |-> r.ret, outcomes |-> outcomes]

(***************************************************************************)
(* app.py: generate_with_retry                                             *)
(***************************************************************************)
RETRY_CONFIG_max_attempts == 3
RETRY_CONFIG_base_delay_seconds == 1
RETRY_CONFIG_max_delay_seconds == 10

RECURSIVE Pow2(_)
Pow2(n) == IF n = 0 THEN 1 ELSE 2 * Pow2(n - 1)

Min(a, b) == IF a <= b THEN a ELSE b

\* as backoff_delay, without the doubling
backoff_delay_constant(n) == RETRY_CONFIG_base_delay_seconds

\* the delay slept after failed attempt n
backoff_delay(n) ==
    Min(RETRY_CONFIG_base_delay_seconds * Pow2(n - 1), RETRY_CONFIG_max_delay_seconds)

\* as attempt_prompt, with the correction built from the first Attempt Record
attempt_prompt_first_record(n, user_request) ==
    IF n = 1
    THEN build_generation_prompt(user_request)
    ELSE LET prev_error == attempts[1].error
             prev_output == IF text_truthy(attempts[1].raw_output)
                            THEN attempts[1].raw_output
                            ELSE NO_OUTPUT
         IN  RETRY_CORRECTION_PROMPT_format(
                 prev_error,
                 str_slice(prev_output, INVALID_OUTPUT_LIMIT),
                 user_request,
                 str_join(", ", get_allowed_tool_names))

\* the prompt generate_with_retry builds for attempt n
attempt_prompt(n, user_request) ==
    IF n = 1
    THEN build_generation_prompt(user_request)
    ELSE LET prev_error == attempts[Len(attempts)].error
             prev_output == IF text_truthy(attempts[Len(attempts)].raw_output)
                            THEN attempts[Len(attempts)].raw_output
                            ELSE NO_OUTPUT
         IN  RETRY_CORRECTION_PROMPT_format(
                 prev_error,
                 str_slice(prev_output, INVALID_OUTPUT_LIMIT),
                 user_request,
                 str_join(", ", get_allowed_tool_names))

\* as attempt_outcome, returning the validated automation as the model gave it
attempt_outcome_unsanitized(text) ==
    LET automation == extract_json_from_response(text)
    IN  IF automation.kind = "ValueError"
        THEN [ok |-> FALSE, error_msg |-> JStr(automation.val), automation |-> NONE]
        ELSE IF automation.kind = "num"
        THEN [ok |-> FALSE,
              error_msg |-> JStr("Unexpected error: argument of type 'int' is not iterable"),
              automation |-> NONE]
        ELSE IF automation.kind = "dict" /\ "error" \in DOMAIN automation.val
        THEN [ok |-> FALSE,
              error_msg |-> JStr("LLM returned error: " \o py_str(automation.val["error"])),
              automation |-> NONE]
        ELSE IF automation.kind # "dict"
        THEN [ok |-> FALSE,
              error_msg |-> JStr("Validation failed: Missing or invalid 'name' field"),
              automation |-> NONE]
        ELSE LET checked == validate_automation(automation.val)
             IN  IF ~checked[1]
                 THEN [ok |-> FALSE,
                       error_msg |-> JStr("Validation failed: " \o checked[2].val),
                       automation |-> NONE]
                 ELSE [ok |-> TRUE, error_msg |-> NONE, automation |-> automation]

\* the body of the try block after call_llm returned text: the sanitized
\* automation, or the message of the ValueError / Exception caught
attempt_outcome(text) ==
    LET automation == extract_json_from_response(text)
    IN  IF automation.kind = "ValueError"
        THEN [ok |-> FALSE, error_msg |-> JStr(automation.val), automation |-> NONE]
        ELSE IF automation.kind = "num"
        THEN \* "error" in automation raises TypeError
             [ok |-> FALSE,
              error_msg |-> JStr("Unexpected error: argument of type 'int' is not iterable"),
              automation |-> NONE]
        ELSE IF automation.kind = "dict" /\ "error" \in DOMAIN automation.val
        THEN [ok |-> FALSE,
              error_msg |-> JStr("LLM returned error: " \o py_str(automation.val["error"])),
              automation |-> NONE]
        ELSE IF automation.kind # "dict"
        THEN \* a list holding neither "error" nor "name": validate_automation
             \* finds "name" not in data
             [ok |-> FALSE,
              error_msg |-> JStr("Validation failed: Missing or invalid 'name' field"),
              automation |-> NONE]
        ELSE LET checked == validate_automation(automation.val)
             IN  IF ~checked[1]
                 THEN [ok |-> FALSE,
                       error_msg |-> JStr("Validation failed: " \o checked[2].val),
                       automation |-> NONE]
                 ELSE [ok |-> TRUE, error_msg |-> NONE,
                       automation |-> JDict(sanitize_automation(automation.val))]

NoCall == [called |-> <<>>, ret |-> NONE, outcomes |-> <<>>]

\* as AttemptRecord, with every record numbered 1
AttemptRecord_unnumbered(n, status, error, raw_output) ==
    [attempt |-> 1, status |-> status, error |-> error, raw_output |-> raw_output]

AttemptRecord(n, status, error, raw_output) ==
    [attempt |-> n, status |-> status, error |-> error, raw_output |-> raw_output]

\* the raw_output a failed Attempt Record stores
recorded_raw_output(raw_output) ==
    IF text_truthy(raw_output) THEN str_slice(raw_output, RAW_OUTPUT_LIMIT) ELSE NONE

Returned(value) == [kind |-> "return", val |-> value]

(***************************************************************************)
(* required_fields.py                                                      *)
(***************************************************************************)
Question(question, options) == [question |-> question, options |-> options]

REQUIRED_FIELDS ==
    [intent \in {"stock_monitor", "crypto_monitor", "job_alert", "price_alert"} |->
        CASE intent = "stock_monitor" ->
                [fields |-> << "symbol", "interval", "notification_channel" >>,
                 questions |->
                    [symbol |-> Question("Which stock would you like to monitor?", NONE),
                     interval |-> Question("How often should I check?",
                        JList(<< "Every minute", "Every 5 minutes", "Every hour", "Daily" >>)),
                     notification_channel |-> Question("Where should I send the updates?",
                        JList(<< "WhatsApp", "Email", "In-app notification" >>))]]
          [] intent = "crypto_monitor" ->
                [fields |-> << "symbol", "interval", "notification_channel" >>,
                 questions |->
                    [symbol |-> Question("Which cryptocurrency?",
                        JList(<< "Bitcoin (BTC)", "Ethereum (ETH)", "Solana (SOL)" >>)),
                     interval |-> Question("How often should I check?",
                        JList(<< "Every minute", "Every 5 minutes", "Every hour" >>)),
                     notification_channel |-> Question("Where should I send the updates?",
                        JList(<< "WhatsApp", "Email", "In-app notification" >>))]]
          [] intent = "job_alert" ->
                [fields |-> << "query", "interval", "notification_channel" >>,
                 questions |->
                    [query |-> Question("What kind of jobs are you looking for?", NONE),
                     interval |-> Question("How often should I search?",
                        JList(<< "Every hour", "Daily", "Weekly" >>)),
                     notification_channel |-> Question("Where should I send job alerts?",
                        JList(<< "WhatsApp", "Email" >>))]]
          [] OTHER ->
                [fields |-> << "symbol", "condition", "threshold", "notification_channel" >>,
                 questions |->
                    [symbol |-> Question("Which stock or crypto?", NONE),
                     condition |-> Question("Should I alert when price goes above or below?",
                        JList(<< "Above", "Below" >>)),
                     threshold |-> Question("At what price should I alert you?", NONE),
                     notification_channel |-> Question("Where should I send the alert?",
                        JList(<< "WhatsApp", "Email", "In-app notification" >>))]]]

DEFAULT_REQUIRED_FIELDS == << "notification_channel" >>

\* REQUIRED_FIELDS.get(intent, default), for an intent that is a JSON value
get_required_fields(intent) ==
    IF intent.kind = "str" /\ intent.val \in DOMAIN REQUIRED_FIELDS
    THEN REQUIRED_FIELDS[intent.val]
    ELSE [fields |-> DEFAULT_REQUIRED_FIELDS, questions |-> EmptyDict]

get_missing_field_question(intent, field) ==
    LET questions == get_required_fields(intent).questions
    IN  IF field \in DOMAIN questions
        THEN questions[field]
        ELSE Question("What should the " \o str_replace(field, "_", " ") \o " be?", NONE)

\* as normalize_channel_response, keeping the name the caller gave
normalize_channel_response_spoken(answer) == str_strip(str_lower(answer))

normalize_channel_response(answer) ==
    LET response_lower == str_strip(str_lower(answer))
    IN  CASE response_lower = "whatsapp" -> "send_whatsapp"
          [] response_lower = "email" -> "send_email"
          [] response_lower = "in-app" -> "send_notification"
          [] response_lower = "in-app notification" -> "send_notification"
          [] response_lower = "notification" -> "send_notification"
          [] response_lower = "sms" -> "send_sms"
          [] OTHER -> "send_notification"

\* as normalize_interval_response, for an answer taken as it is
normalize_interval_response_verbatim(answer) == answer

\* as normalize_interval_response, looking the answer up in the case it has
normalize_interval_response_case_sensitive(answer) ==
    LET response_stripped == str_strip(answer)
    IN  CASE response_stripped = "every minute" -> "1m"
          [] response_stripped = "every 5 minutes" -> "5m"
          [] response_stripped = "every 15 minutes" -> "15m"
          [] response_stripped = "every 30 minutes" -> "30m"
          [] response_stripped = "every hour" -> "1h"
          [] response_stripped = "hourly" -> "1h"
          [] response_stripped = "daily" -> "1d"
          [] response_stripped = "weekly" -> "1w"
          [] OTHER -> answer

normalize_interval_response(answer) ==
    LET response_lower == str_strip(str_lower(answer))
    IN  CASE response_lower = "every minute" -> "1m"
          [] response_lower = "every 5 minutes" -> "5m"
          [] response_lower = "every 15 minutes" -> "15m"
          [] response_lower = "every 30 minutes" -> "30m"
          [] response_lower = "every hour" -> "1h"
          [] response_lower = "hourly" -> "1h"
          [] response_lower = "daily" -> "1d"
          [] response_lower = "weekly" -> "1w"
          [] OTHER -> answer

(***************************************************************************)
(* clarification.py: ClarificationHandler                                  *)
(***************************************************************************)
\* as detect_missing_fields, listing the missing fields last to first
detect_missing_fields_last_first(intent, extracted_entities) ==
    LET missing == SelectSeq(get_required_fields(intent).fields,
                             LAMBDA field : \/ field \notin DOMAIN extracted_entities
                                            \/ ~py_truthy(extracted_entities[field]))
    IN  [i \in 1..Len(missing) |-> missing[Len(missing) + 1 - i]]

detect_missing_fields(intent, extracted_entities) ==
    SelectSeq(get_required_fields(intent).fields,
              LAMBDA field : \/ field \notin DOMAIN extracted_entities
                             \/ ~py_truthy(extracted_entities[field]))

needs_clarification(intent, extracted_entities) ==
    Len(detect_missing_fields(intent, extracted_entities)) > 0

\* as options_text, the options as a plain comma-separated list
options_text_comma_list(options) == str_join(", ", options)

\* the options of a question as a voice caller hears them
options_text(options) ==
    IF Len(options) > 1
    THEN str_join(", ", SubSeq(options, 1, Len(options) - 1))
             \o ", or " \o options[Len(options)]
    ELSE options[1]

\* get_next_question: NONE when nothing is missing, else the question for the
\* first missing field
get_next_question(intent, extracted_entities, input_mode) ==
    LET missing == detect_missing_fields(intent, extracted_entities)
        next_field == missing[1]
        question_config == get_missing_field_question(intent, next_field)
        question_text == question_config.question
        options == question_config.options
        spoken == py_truthy(options) /\ input_mode = "voice"
    IN  IF Len(missing) = 0 THEN NONE
        ELSE [needs_clarification |-> TRUE,
              missing_field |-> next_field,
              question |-> IF spoken
                           THEN question_text \o " You can say "
                                    \o options_text(options.val) \o "."
                           ELSE question_text,
              options |-> options,
              response_mode |-> input_mode,
              ssml |-> IF input_mode # "voice" THEN NONE
                       ELSE IF spoken
                       THEN JStr("<speak>" \o question_text
                                     \o " <break time='300ms'/> You can say "
                                     \o options_text(options.val) \o ".</speak>")
                       ELSE JStr("<speak>" \o question_text \o "</speak>"),
              \* {"intent": intent, **extracted_entities}
              partial_context |->
                  [k \in DOMAIN extracted_entities \cup {"intent"} |->
                      IF k \in DOMAIN extracted_entities
                      THEN extracted_entities[k] ELSE intent]]

\* as merge_context, starting from a context that holds the intent only
merge_context_from_intent(previous_context, new_field, new_value) ==
    dict_set([k \in DOMAIN previous_context \cap {"intent"} |-> previous_context[k]],
        new_field,
        CASE new_field = "notification_channel" -> JStr(normalize_channel_response(new_value))
          [] new_field = "interval" -> JStr(normalize_interval_response(new_value))
          [] OTHER -> JStr(new_value))

merge_context(previous_context, new_field, new_value) ==
    dict_set(previous_context, new_field,
        CASE new_field = "notification_channel" -> JStr(normalize_channel_response(new_value))
          [] new_field = "interval" -> JStr(normalize_interval_response(new_value))
          [] OTHER -> JStr(new_value))

\* the channel wording after the loop over steps: the last step of one of
\* the three kinds decides
RECURSIVE confirmation_channel(_, _)
confirmation_channel(steps, channel) ==
    IF Len(steps) = 0 THEN channel
    ELSE LET type == dict_get(steps[1].val, "type", NONE)
         IN  confirmation_channel(Tail(steps),
                 CASE type = JStr("send_whatsapp") -> "message you on WhatsApp"
                   [] type = JStr("send_email") -> "email you"
                   [] type = JStr("send_notification") -> "send you a notification"
                   [] OTHER -> channel)

generate_confirmation(automation, input_mode) ==
    LET trigger_ == dict_get(automation, "trigger", JDict(EmptyDict)).val
        steps == dict_get(automation, "steps", JList(<<>>)).val
        type == dict_get(trigger_, "type", NONE)
        timing == CASE type = JStr("interval") ->
                          "every " \o py_str(dict_get(trigger_, "every", JStr("periodically")))
                    [] type = JStr("daily") ->
                          "daily at " \o py_str(dict_get(trigger_, "at", JStr("scheduled time")))
                    [] OTHER -> "when you trigger it"
        channel == confirmation_channel(steps, "notify you")
    IN  [response_mode |-> input_mode,
         text |-> "Done! I'll " \o channel \o " " \o timing \o ".",
         ssml |-> IF input_mode = "voice"
                  THEN JStr("<speak>Done! <break time='200ms'/> I'll " \o channel
                                \o " " \o timing \o ".</speak>")
                  ELSE NONE]

(***************************************************************************)
(* app.py: build_automation_from_context and the conversation endpoint     *)
(***************************************************************************)
\* type(v).__name__
py_type_name(v) ==
    CASE v.kind = "str" -> "str"
      [] v.kind = "num" -> "int"
      [] v.kind = "list" -> "list"
      [] v.kind = "dict" -> "dict"
      [] OTHER -> "NoneType"

\* the AttributeError of calling a str method on a value that is no str
AttributeError(v, method) ==
    [kind |-> "AttributeError",
     val |-> "'" \o py_type_name(v) \o "' object has no attribute '" \o method \o "'"]

\* build_automation_from_context: the automation, or the AttributeError of
\* the first str method called on a context value that is no str
build_automation_from_context(context) ==
    LET intent == dict_get(context, "intent", JStr("custom"))
        interval == dict_get(context, "interval", JStr("5m"))
        fetch_symbol ==
            dict_get(context, "symbol",
                     JStr(IF intent = JStr("stock_monitor") THEN "UNKNOWN" ELSE "BTC"))
        fetches == intent \in {JStr("stock_monitor"), JStr("crypto_monitor")}
        first_steps ==
            CASE intent = JStr("stock_monitor") ->
                    << JDict([type |-> JStr("fetch_stock_price"),
                              symbol |-> JStr(str_upper(fetch_symbol.val))]) >>
              [] intent = JStr("crypto_monitor") ->
                    << JDict([type |-> JStr("fetch_crypto_price"),
                              symbol |-> JStr(str_upper(fetch_symbol.val))]) >>
              [] intent = JStr("job_alert") ->
                    << JDict([type |-> JStr("job_search"),
                              query |-> dict_get(context, "query", JStr("developer"))]) >>
              [] OTHER -> << >>
        channel == dict_get(context, "notification_channel", JStr("send_notification"))
        notification_type ==
            IF str_startswith(channel.val, "send_")
            THEN channel.val
            ELSE normalize_channel_response(channel.val)
        symbol == dict_get(context, "symbol", JStr(""))
        message == IF py_truthy(symbol)
                   THEN str_upper(symbol.val) \o " update"
                   ELSE "Automation update"
        name_symbol == dict_get(context, "symbol", JStr("Automation"))
        name == str_upper(name_symbol.val) \o " "
                    \o str_title(str_replace(intent.val, "_", " "))
    IN  IF fetches /\ fetch_symbol.kind # "str"
        THEN AttributeError(fetch_symbol, "upper")
        ELSE IF channel.kind # "str"
        THEN AttributeError(channel, "startswith")
        ELSE IF py_truthy(symbol) /\ symbol.kind # "str"
        THEN AttributeError(symbol, "upper")
        ELSE IF name_symbol.kind # "str"
        THEN AttributeError(name_symbol, "upper")
        ELSE IF intent.kind # "str"
        THEN AttributeError(intent, "replace")
        ELSE JDict([name |-> JStr(name),
                    description |-> JStr("Auto-generated " \o intent.val \o " automation"),
                    trigger |-> JDict([type |-> JStr("interval"), every |-> interval]),
                    steps |-> JList(first_steps \o
                                 << JDict([type |-> JStr(notification_type),
                                           message |-> JStr(message)]) >>),
                    status |-> JStr("draft")])

JsonResponse(body) == [kind |-> "json", val |-> body]

\* str(e) of an HTTPException
http_exception_str(e) ==
    (IF e.val.status_code = 503 THEN "503" ELSE "500") \o ": " \o e.val.detail

\* conversation(): clarification["awaiting_field"] = clarification["missing_field"]
clarification_response(clarification) ==
    JsonResponse(
        [needs_clarification |-> TRUE,
         missing_field |-> clarification.missing_field,
         question |-> clarification.question,
         options |-> clarification.options,
         response_mode |-> clarification.response_mode,
         ssml |-> clarification.ssml,
         partial_context |-> clarification.partial_context,
         awaiting_field |-> clarification.missing_field])

\* conversation(): {"success": True, ..., "automation": automation, **confirmation}
completion_response(automation, confirmation) ==
    JsonResponse(
        [success |-> TRUE,
         needs_clarification |-> FALSE,
         automation |-> automation,
         response_mode |-> confirmation.response_mode,
         text |-> confirmation.text,
         ssml |-> confirmation.ssml])

confirmed_response(automation, input_mode) ==
    completion_response(automation, generate_confirmation(automation, input_mode))

\* conversation(): the automation was built, or building it raised
built_response(built, input_mode) ==
    IF built.kind = "AttributeError"
    THEN HTTPException(500, built.val)
    ELSE confirmed_response(sanitize_automation(built.val), input_mode)

\* as conversation_reply, without the test of needs_clarification
conversation_reply_never_asks(intent, entities, build_from, input_mode) ==
    built_response(build_automation_from_context(build_from), input_mode)

\* the branch of conversation() that asks the next question or completes,
\* shared by the first turn and by an answer
conversation_reply(intent, entities, build_from, input_mode) ==
    IF needs_clarification(intent, entities)
    THEN clarification_response(get_next_question(intent, entities, input_mode))
    ELSE built_response(build_automation_from_context(build_from), input_mode)

\* conversation(): the request carries a context with a truthy awaiting_field
conversation_answer(text, input_mode, context) ==
    LET awaiting_field == context["awaiting_field"].val
        partial_context == dict_get(context, "partial_context", JDict(EmptyDict)).val
        updated_context == merge_context(partial_context, awaiting_field, text)
        intent == dict_get(updated_context, "intent", JStr("stock_monitor"))
    IN  conversation_reply(intent, updated_context, updated_context, input_mode)

\* conversation(): first turn, when call_llm returned or raised llm_result
conversation_first_turn(llm_result, input_mode) ==
    IF llm_result.kind = "HTTPException"
    THEN HTTPException(500, http_exception_str(llm_result))
    ELSE LET extracted == extract_json_from_response(llm_result)
         IN  IF extracted.kind = "ValueError"
             THEN JsonResponse(
                      [success |-> FALSE,
                       error |-> extracted.val,
                       response_mode |-> input_mode,
                       text |-> "I'm sorry, I couldn't understand that. Could you try rephrasing?"])
             ELSE IF extracted.kind # "dict"
             THEN HTTPException(500, AttributeError(extracted, "get").val)
             ELSE LET intent == dict_get(extracted.val, "intent", JStr("stock_monitor"))
                      entities == dict_get(extracted.val, "entities", JDict(EmptyDict))
                  IN  IF entities.kind # "dict"
                      THEN HTTPException(500, AttributeError(entities, "get").val)
                      ELSE conversation_reply(intent, entities.val, entities.val, input_mode)

\* the locals of one conversation(): which branch ran (turn), the field
\* answered and the text (an answer), the context before the merge
\* (previous), and intent and the context that needs_clarification was
\* called with (decided is FALSE when the request failed before that call)
Turn(turn, awaiting_field, text, previous, decided, intent, entities) ==
    [turn |-> turn, awaiting_field |-> awaiting_field, text |-> text,
     previous |-> previous, decided |-> decided, intent |-> intent,
     entities |-> entities]

NoTurn == Turn("none", "", "", EmptyDict, FALSE, NONE, EmptyDict)

\* conversation(): awaiting_field, partial_context, updated_context, intent
conversation_answer_locals(text, context) ==
    LET awaiting_field == context["awaiting_field"].val
        partial_context == dict_get(context, "partial_context", JDict(EmptyDict)).val
        updated_context == merge_context(partial_context, awaiting_field, text)
    IN  Turn("answer", awaiting_field, text, partial_context, TRUE,
             dict_get(updated_context, "intent", JStr("stock_monitor")),
             updated_context)

\* conversation(): extracted, intent, entities of a first turn
conversation_first_turn_locals(llm_result) ==
    LET extracted == extract_json_from_response(llm_result)
        entities == dict_get(extracted.val, "entities", JDict(EmptyDict))
    IN  IF llm_result.kind = "HTTPException" \/ extracted.kind # "dict"
        THEN Turn("first", "", "", EmptyDict, FALSE, NONE, EmptyDict)
        ELSE IF entities.kind # "dict"
        THEN Turn("first", "", "", EmptyDict, FALSE, NONE, EmptyDict)
        ELSE Turn("first", "", "", EmptyDict, TRUE,
                  dict_get(extracted.val, "intent", JStr("stock_monitor")),
                  entities.val)

(***************************************************************************)
(* app.py: the parse-intent endpoint                                       *)
(***************************************************************************)
\* parse_intent(): the answer, when call_llm returned or raised llm_result
parse_intent(raw_text, llm_result) ==
    IF llm_result.kind = "HTTPException"
    THEN HTTPException(500, http_exception_str(llm_result))
    ELSE LET parsed == extract_json_from_response(llm_result)
         IN  IF parsed.kind = "ValueError"
             THEN JsonResponse([success |-> FALSE, error |-> parsed.val,
                                raw_text |-> raw_text])
             ELSE IF parsed.kind # "dict"
             THEN HTTPException(500, AttributeError(parsed, "get").val)
             ELSE JsonResponse(
                      [success |-> TRUE,
                       intent |-> dict_get(parsed.val, "intent", JStr("custom")),
                       entities |-> dict_get(parsed.val, "entities", JDict(EmptyDict)),
                       channel |-> dict_get(parsed.val, "channel", JStr("notification")),
                       raw_text |-> raw_text])

(***************************************************************************)
(* SpecTrigger: validate_trigger applied to every trigger of TriggerInputs *)
(***************************************************************************)
ValidatorIdle ==
    /\ dynamic_allowed_steps = NONE
    /\ data = EmptyDict
    /\ verdict = <<>>
    /\ allowed_seen = NONE
    /\ sanitized = NONE

ConversationIdle ==
    /\ conv_pc = "idle"
    /\ conv_context = EmptyDict
    /\ conv_response = NONE
    /\ conv_answers = 0
    /\ conv_llm_calls = 0
    /\ conv_turn = NoTurn

TriggerIdle ==
    /\ trigger = EmptyDict
    /\ trigger_verdict = <<>>

LoopIdle ==
    /\ step_i = 0
    /\ checked_with = <<>>

RegistryIdle ==
    /\ fetched = NoFetch
    /\ seen = NotRead

RetryIdle ==
    /\ LoopIdle
    /\ RegistryIdle
    /\ registry_cache = EmptyRegistryCache
    /\ pc = "idle"
    /\ attempt = 1
    /\ attempts = <<>>
    /\ full_prompt = NONE
    /\ response_text = NONE
    /\ llm_calls = 0
    /\ last_call = NoCall
    /\ sleeps = <<>>
    /\ result = NONE
    /\ response = NONE

InitTrigger ==
    /\ ValidatorIdle
    /\ RetryIdle
    /\ ConversationIdle
    /\ keys = {}
    /\ trigger \in TriggerInputs
    /\ trigger_verdict = <<>>

ValidateTrigger ==
    /\ trigger_verdict = <<>>
    /\ trigger_verdict' = validate_trigger(trigger)
    /\ UNCHANGED <<registry_vars, loop_vars, conv_vars, validator_vars, retry_vars, trigger>>

NextTrigger == ValidateTrigger

SpecTrigger == InitTrigger /\ [][NextTrigger]_vars

(***************************************************************************)
(* SpecValidator: validate_automation and sanitize_automation applied to   *)
(* every object of AutomationInputs, under every state of the allowed list *)
(***************************************************************************)
InitValidator ==
    /\ TriggerIdle
    /\ RetryIdle
    /\ ConversationIdle
    /\ keys = {}
    /\ dynamic_allowed_steps = NONE
    /\ data \in AutomationInputs
    /\ verdict = <<>>
    /\ allowed_seen = NONE
    /\ sanitized = NONE

RefreshAllowedSteps ==
    /\ verdict = <<>>
    /\ \/ \E tools \in RegistryToolLists : refresh_allowed_steps_ok(tools)
       \/ refresh_allowed_steps_failed
    /\ UNCHANGED <<registry_vars, loop_vars, conv_vars, data, verdict, allowed_seen, sanitized, trigger_vars, retry_vars>>

ValidateAutomation ==
    /\ verdict = <<>>
    /\ verdict' = validate_automation(data)
    /\ allowed_seen' = JList(get_allowed_steps)
    /\ UNCHANGED <<registry_vars, loop_vars, conv_vars, dynamic_allowed_steps, data, sanitized, trigger_vars, retry_vars>>

\* sanitize_automation applied to the object, or again to its own result
SanitizeAutomation ==
    /\ sanitized' = JDict(sanitize_automation(IF sanitized = NONE THEN data ELSE sanitized.val))
    /\ UNCHANGED <<registry_vars, loop_vars, conv_vars, dynamic_allowed_steps, data, verdict, allowed_seen, trigger_vars, retry_vars>>

NextValidator == RefreshAllowedSteps \/ ValidateAutomation \/ SanitizeAutomation

SpecValidator == InitValidator /\ [][NextValidator]_vars

(***************************************************************************)
(* SpecSnapshot: one validate_automation call taken statement by           *)
(* statement, the checks of lines 56-75, the read of the allowed list at   *)
(* line 78, then one validate_step per pass of the loop, while             *)
(* refresh_allowed_steps may complete between any two of them              *)
(***************************************************************************)
\* the objects validated: every name, trigger and steps value of the pools
SnapshotInputs ==
    {Present([error |-> e, name |-> n, trigger |-> t, steps |-> s]) :
        e \in ErrorValues, n \in NameValues, t \in TriggerValues, s \in StepsValues}

InitSnapshot ==
    /\ TriggerIdle
    /\ RetryIdle
    /\ ConversationIdle
    /\ keys = {}
    /\ dynamic_allowed_steps = NONE
    /\ data \in SnapshotInputs
    /\ verdict = <<>>
    /\ allowed_seen = NONE
    /\ sanitized = NONE

\* lines 56-78: the early returns, then allowed = get_allowed_steps()
ValidateBegins ==
    /\ verdict = <<>>
    /\ step_i = 0
    /\ LET early == validate_automation_before_steps(data)
       IN  IF early # <<>>
           THEN /\ verdict' = early
                /\ UNCHANGED <<allowed_seen, step_i>>
           ELSE /\ allowed_seen' = JList(get_allowed_steps)
                /\ step_i' = 1
                /\ UNCHANGED verdict
    /\ UNCHANGED <<registry_vars, conv_vars, dynamic_allowed_steps, data, sanitized,
                   checked_with, trigger_vars, retry_vars>>

\* as ValidateNextStep, reading the allowed list anew for every step
ValidateNextStep_rereads ==
    /\ verdict = <<>>
    /\ step_i >= 1
    /\ LET steps == data["steps"].val
           checked == validate_step(steps[step_i], get_allowed_steps)
       IN  /\ checked_with' = Append(checked_with, get_allowed_steps)
           /\ IF ~checked[1]
              THEN /\ verdict' = <<FALSE, JStr("Step " \o str_of_int(step_i) \o ": "
                                                \o checked[2].val)>>
                   /\ UNCHANGED step_i
              ELSE IF step_i = Len(steps)
              THEN /\ verdict' = <<TRUE, NONE>>
                   /\ UNCHANGED step_i
              ELSE /\ step_i' = step_i + 1
                   /\ UNCHANGED verdict
    /\ UNCHANGED <<registry_vars, conv_vars, dynamic_allowed_steps, data, allowed_seen,
                   sanitized, trigger_vars, retry_vars>>

\* lines 79-84: one pass of the loop over the steps, with the list read at
\* line 78
ValidateNextStep ==
    /\ verdict = <<>>
    /\ step_i >= 1
    /\ LET steps == data["steps"].val
           checked == validate_step(steps[step_i], allowed_seen.val)
       IN  /\ checked_with' = Append(checked_with, allowed_seen.val)
           /\ IF ~checked[1]
              THEN /\ verdict' = <<FALSE, JStr("Step " \o str_of_int(step_i) \o ": "
                                                \o checked[2].val)>>
                   /\ UNCHANGED step_i
              ELSE IF step_i = Len(steps)
              THEN /\ verdict' = <<TRUE, NONE>>
                   /\ UNCHANGED step_i
              ELSE /\ step_i' = step_i + 1
                   /\ UNCHANGED verdict
    /\ UNCHANGED <<registry_vars, conv_vars, dynamic_allowed_steps, data, allowed_seen,
                   sanitized, trigger_vars, retry_vars>>

NextSnapshot == RefreshAllowedSteps \/ ValidateBegins \/ ValidateNextStep

SpecSnapshot == InitSnapshot /\ [][NextSnapshot]_vars

(***************************************************************************)
(* SpecStep: validate_step applied to one step of every type of StepTypes  *)
(* with every set of the fields of StepFields, under the fallback list and *)
(* under every list of CatalogToolLists that a refresh installed           *)
(***************************************************************************)
StepTypes ==
    { "condition", "send_email", "send_whatsapp", "send_sms", "send_discord",
      "read_google_sheet", "write_google_sheet", "append_google_sheet",
      "notify", "teleport" }

StepFields == {"if", "condition", "to", "message", "spreadsheetId", "range"}

\* the step objects: a type and any of the fields, each with some value
StepInputs ==
    { [k \in {"type"} \cup fields |->
          IF k = "type" THEN JStr(t) ELSE IF k = "range" THEN JStr("A1:B2") ELSE JStr("x")] :
        t \in StepTypes, fields \in SUBSET StepFields }

\* a registry that serves the sheet tools, next to the lists of
\* RegistryToolLists
SHEET_TOOL_NAMES ==
    << "condition", "send_email", "send_sms", "read_google_sheet",
       "write_google_sheet", "append_google_sheet" >>

CatalogToolLists == RegistryToolLists \cup {SHEET_TOOL_NAMES}

InitStep ==
    /\ TriggerIdle
    /\ RetryIdle
    /\ ConversationIdle
    /\ keys = {}
    /\ dynamic_allowed_steps = NONE
    /\ data \in StepInputs
    /\ verdict = <<>>
    /\ allowed_seen = NONE
    /\ sanitized = NONE

\* refresh_allowed_steps() against a registry serving one of CatalogToolLists
RefreshAllowedStepsFromCatalog ==
    /\ verdict = <<>>
    /\ \/ \E tools \in CatalogToolLists : refresh_allowed_steps_ok(tools)
       \/ refresh_allowed_steps_failed
    /\ UNCHANGED <<registry_vars, loop_vars, conv_vars, data, verdict, allowed_seen, sanitized, trigger_vars, retry_vars>>

\* validate_step(step): allowed_steps is None, so the list is read at line 117
ValidateStep ==
    /\ verdict = <<>>
    /\ verdict' = validate_step(JDict(data), get_allowed_steps)
    /\ allowed_seen' = JList(get_allowed_steps)
    /\ UNCHANGED <<registry_vars, loop_vars, conv_vars, dynamic_allowed_steps, data, sanitized, trigger_vars, retry_vars>>

NextStep == RefreshAllowedStepsFromCatalog \/ ValidateStep

SpecStep == InitStep /\ [][NextStep]_vars

(***************************************************************************)
(* Spec: one generate-automation request, from process start to the        *)
(* endpoint's answer, under every provider configuration, every provider   *)
(* outcome and every model output of LlmTexts                              *)
(***************************************************************************)
USER_REQUEST == "Send me AAPL stock price every 5 minutes"

IntervalTrigger5m == JDict(Present([type |-> JStr("interval"), every |-> JStr("5m")]))
FetchStockStep == JDict(Present([type |-> JStr("fetch_stock_price"), symbol |-> JStr("AAPL")]))
NotifyStep == JDict(Present([type |-> JStr("notify"), message |-> JStr("AAPL: {{step1.price}}")]))

LlmTexts ==
    { \* a valid automation, without status and description
      Text("valid", 180,
           JDict(Present([name |-> JStr("AAPL Price"), trigger |-> IntervalTrigger5m,
                          steps |-> JList(<<FetchStockStep, NotifyStep>>)]))),
      \* a valid automation in a long answer, with status and description
      Text("valid-long", 2600,
           JDict(Present([name |-> JStr("AAPL Watch"), description |-> JStr("Sends the price"),
                          status |-> JStr("active"), trigger |-> IntervalTrigger5m,
                          steps |-> JList(<<FetchStockStep, NotifyStep>>)]))),
      \* a valid automation with a status of its own and no description
      Text("valid-paused", 200,
           JDict(Present([name |-> JStr("AAPL Pause"), status |-> JStr("paused"),
                          trigger |-> IntervalTrigger5m,
                          steps |-> JList(<<FetchStockStep, NotifyStep>>)]))),
      \* a condition step with the wrong key
      Text("wrong-key", 800,
           JDict(Present([name |-> JStr("AAPL Alert"), trigger |-> IntervalTrigger5m,
                          steps |-> JList(<<FetchStockStep,
                              JDict(Present([type |-> JStr("condition"),
                                             condition |-> JStr("price<150")])),
                              NotifyStep>>)]))),
      \* a step type outside the allowed list
      Text("unsupported", 150,
           JDict(Present([name |-> JStr("AAPL Beam"), trigger |-> IntervalTrigger5m,
                          steps |-> JList(<<JDict(Present([type |-> JStr("teleport")]))>>)]))),
      \* the model declares an error
      Text("error-object", 40, JDict(Present([error |-> JStr("Unsupported request")]))),
      \* a long answer whose JSON is cut off
      Text("cut-off", 3000, UNPARSEABLE),
      \* the empty string
      Text("", 0, UNPARSEABLE),
      \* JSON that is no object
      Text("42", 2, JNum("42")) }

RegistryResponses ==
    { Present([promptText |-> JStr("- fetch_stock_price(symbol)\n- notify(message)\n- condition(if)"),
               toolNames |-> JList(<<"fetch_stock_price", "notify", "condition">>),
               registryVersion |-> JStr("2.1.0")]) }

\* the provider configurations tried: none, one, two
KeyConfigs == { {}, {"Groq"}, {"HuggingFace", "Gemini"} }

Init ==
    /\ ValidatorIdle
    /\ LoopIdle
    /\ RegistryIdle
    /\ TriggerIdle
    /\ ConversationIdle
    /\ registry_cache = EmptyRegistryCache
    /\ keys \in KeyConfigs
    /\ pc = "startup"
    /\ attempt = 1
    /\ attempts = <<>>
    /\ full_prompt = NONE
    /\ response_text = NONE
    /\ llm_calls = 0
    /\ last_call = NoCall
    /\ sleeps = <<>>
    /\ result = NONE
    /\ response = NONE

\* startup_event: fetch_registry succeeds or fails; then a request arrives
\* and generate_with_retry starts its loop
StartupEvent ==
    /\ pc = "startup"
    /\ \/ \E resp \in RegistryResponses : fetch_registry_ok(resp)
       \/ fetch_registry_failed
    /\ pc' = "attempt"
    /\ UNCHANGED <<registry_vars, loop_vars, conv_vars, validator_vars, trigger_vars, keys, attempt, attempts, full_prompt,
                   response_text, llm_calls, last_call, sleeps, result, response>>

\* lines 350-363: the prompt of this attempt
BuildPrompt ==
    /\ pc = "attempt"
    /\ full_prompt' = attempt_prompt(attempt, USER_REQUEST)
    /\ response_text' = NONE
    /\ pc' = "call"
    /\ UNCHANGED <<registry_vars, loop_vars, conv_vars, validator_vars, trigger_vars, registry_cache, keys, attempt, attempts,
                   llm_calls, last_call, sleeps, result, response>>

\* line 366: call_llm returns the text of the first provider that answers
CallLlmReturns ==
    /\ pc = "call"
    /\ \E outcomes \in [keys -> ProviderOutcomes], text \in LlmTexts :
          LET r == call_llm(keys, outcomes, text)
          IN  /\ r.ret.kind = "text"
              /\ response_text' = r.ret
              /\ last_call' = Called(r, outcomes)
    /\ llm_calls' = llm_calls + 1
    /\ pc' = "process"
    /\ UNCHANGED <<registry_vars, loop_vars, conv_vars, validator_vars, trigger_vars, registry_cache, keys, attempt, attempts,
                   full_prompt, sleeps, result, response>>

\* as CallLlmRaises, with the HTTPException caught by the generic handler
\* and recorded as one more failed attempt
CallLlmRaises_caught ==
    /\ pc = "call"
    /\ \E outcomes \in [keys -> ProviderOutcomes] :
          LET r == call_llm(keys, outcomes, NO_OUTPUT)
          IN  /\ r.ret.kind = "HTTPException"
              /\ last_call' = Called(r, outcomes)
              /\ attempts' = Append(attempts,
                     AttemptRecord(attempt, "failed",
                                   JStr("Unexpected error: " \o r.ret.val.detail), NONE))
    /\ llm_calls' = llm_calls + 1
    /\ pc' = IF attempt < RETRY_CONFIG_max_attempts THEN "backoff" ELSE "exhausted"
    /\ UNCHANGED <<registry_vars, loop_vars, conv_vars, validator_vars, trigger_vars, registry_cache, keys, attempt,
                   full_prompt, response_text, sleeps, result, response>>

\* lines 366, 409-411: call_llm raises HTTPException and generate_with_retry
\* re-raises it
CallLlmRaises ==
    /\ pc = "call"
    /\ \E outcomes \in [keys -> ProviderOutcomes] :
          LET r == call_llm(keys, outcomes, NO_OUTPUT)
          IN  /\ r.ret.kind = "HTTPException"
              /\ result' = r.ret
              /\ last_call' = Called(r, outcomes)
    /\ llm_calls' = llm_calls + 1
    /\ pc' = "raised"
    /\ UNCHANGED <<registry_vars, loop_vars, conv_vars, validator_vars, trigger_vars, registry_cache, keys, attempt, attempts,
                   full_prompt, response_text, sleeps, response>>

\* lines 367-407: extraction, validation and sanitization pass
AttemptSucceeds ==
    /\ pc = "process"
    /\ attempt_outcome(response_text).ok
    /\ attempts' = Append(attempts, AttemptRecord(attempt, "success", NONE, NONE))
    /\ result' = Returned([success |-> TRUE,
                           automation |-> attempt_outcome(response_text).automation,
                           attempts |-> Len(attempts'),
                           attempt_details |-> attempts',
                           final_error |-> NONE])
    /\ pc' = "returned"
    /\ UNCHANGED <<registry_vars, loop_vars, conv_vars, validator_vars, trigger_vars, registry_cache, keys, attempt, full_prompt,
                   response_text, llm_calls, last_call, sleeps, response>>

\* as AttemptFails, with the loop never running out
AttemptFails_unbounded ==
    /\ pc = "process"
    /\ ~attempt_outcome(response_text).ok
    /\ attempts' = Append(attempts,
                       AttemptRecord(attempt, "failed",
                                     attempt_outcome(response_text).error_msg,
                                     recorded_raw_output(response_text)))
    /\ pc' = "backoff"
    /\ UNCHANGED <<registry_vars, loop_vars, conv_vars, validator_vars, trigger_vars, registry_cache, keys, attempt, full_prompt,
                   response_text, llm_calls, last_call, sleeps, result, response>>

\* as AttemptFails, with a failure ending the loop at once
AttemptFails_no_retry ==
    /\ pc = "process"
    /\ ~attempt_outcome(response_text).ok
    /\ attempts' = Append(attempts,
                       AttemptRecord(attempt, "failed",
                                     attempt_outcome(response_text).error_msg,
                                     recorded_raw_output(response_text)))
    /\ pc' = "exhausted"
    /\ UNCHANGED <<registry_vars, loop_vars, conv_vars, validator_vars, trigger_vars, registry_cache, keys, attempt, full_prompt,
                   response_text, llm_calls, last_call, sleeps, result, response>>

\* lines 412-427: a ValueError or another Exception is caught and recorded
AttemptFails ==
    /\ pc = "process"
    /\ ~attempt_outcome(response_text).ok
    /\ attempts' = Append(attempts,
                       AttemptRecord(attempt, "failed",
                                     attempt_outcome(response_text).error_msg,
                                     recorded_raw_output(response_text)))
    /\ pc' = IF attempt < RETRY_CONFIG_max_attempts THEN "backoff" ELSE "exhausted"
    /\ UNCHANGED <<registry_vars, loop_vars, conv_vars, validator_vars, trigger_vars, registry_cache, keys, attempt, full_prompt,
                   response_text, llm_calls, last_call, sleeps, result, response>>

\* lines 430-436 and the loop header: sleep, then the next attempt
Backoff ==
    /\ pc = "backoff"
    /\ sleeps' = Append(sleeps, backoff_delay(attempt))
    /\ attempt' = attempt + 1
    /\ pc' = "attempt"
    /\ UNCHANGED <<registry_vars, loop_vars, conv_vars, validator_vars, trigger_vars, registry_cache, keys, attempts, full_prompt,
                   response_text, llm_calls, last_call, result, response>>

\* as ReturnExhausted, with the first attempt's error as the headline
ReturnExhausted_first_error ==
    /\ pc = "exhausted"
    /\ result' = Returned([success |-> FALSE,
                           automation |-> NONE,
                           attempts |-> Len(attempts),
                           attempt_details |-> attempts,
                           final_error |-> IF Len(attempts) > 0
                                           THEN attempts[1].error
                                           ELSE JStr("Unknown error")])
    /\ pc' = "returned"
    /\ UNCHANGED <<registry_vars, loop_vars, conv_vars, validator_vars, trigger_vars, registry_cache, keys, attempt, attempts,
                   full_prompt, response_text, llm_calls, last_call, sleeps, response>>

\* lines 438-447: the loop ran out
ReturnExhausted ==
    /\ pc = "exhausted"
    /\ result' = Returned([success |-> FALSE,
                           automation |-> NONE,
                           attempts |-> Len(attempts),
                           attempt_details |-> attempts,
                           final_error |-> IF Len(attempts) > 0
                                           THEN attempts[Len(attempts)].error
                                           ELSE JStr("Unknown error")])
    /\ pc' = "returned"
    /\ UNCHANGED <<registry_vars, loop_vars, conv_vars, validator_vars, trigger_vars, registry_cache, keys, attempt, attempts,
                   full_prompt, response_text, llm_calls, last_call, sleeps, response>>

\* generate_automation, lines 655-672: the endpoint's JSON answer
generate_automation_response(r) ==
    IF r.success
    THEN [kind |-> "json",
          val |-> [success |-> TRUE, automation |-> r.automation,
                   raw_text |-> USER_REQUEST, attempts |-> r.attempts,
                   retried |-> r.attempts > 1]]
    ELSE [kind |-> "json",
          val |-> [success |-> FALSE, error |-> r.final_error,
                   raw_text |-> USER_REQUEST, attempts |-> r.attempts,
                   attempt_details |-> r.attempt_details]]

EndpointAnswers ==
    /\ pc = "returned"
    /\ response' = generate_automation_response(result.val)
    /\ pc' = "done"
    /\ UNCHANGED <<registry_vars, loop_vars, conv_vars, validator_vars, trigger_vars, registry_cache, keys, attempt, attempts,
                   full_prompt, response_text, llm_calls, last_call, sleeps, result>>

\* the HTTPException leaves the endpoint as the HTTP error answer
EndpointFails ==
    /\ pc = "raised"
    /\ response' = result
    /\ pc' = "done"
    /\ UNCHANGED <<registry_vars, loop_vars, conv_vars, validator_vars, trigger_vars, registry_cache, keys, attempt, attempts,
                   full_prompt, response_text, llm_calls, last_call, sleeps, result>>

Next ==
    \/ StartupEvent
    \/ BuildPrompt
    \/ CallLlmReturns
    \/ CallLlmRaises
    \/ AttemptSucceeds
    \/ AttemptFails
    \/ Backoff
    \/ ReturnExhausted
    \/ EndpointAnswers
    \/ EndpointFails

Spec == Init /\ [][Next]_vars

(***************************************************************************)
(* SpecParseIntent: one request to the /parse-intent endpoint, under every *)
(* set of configured providers and every outcome of each of them           *)
(***************************************************************************)
\* the text a provider answers the intent prompt with
ParseIntentTexts ==
    { Text("intent", 90,
           JDict(Present([intent |-> JStr("stock_monitor"),
                          entities |-> JDict(Present([symbol |-> JStr("AAPL")])),
                          channel |-> JStr("whatsapp")]))),
      Text("intent-only", 30, JDict(Present([intent |-> JStr("job_alert")]))),
      Text("prose", 60, UNPARSEABLE),
      Text("42", 2, JNum("42")) }

InitParseIntent ==
    /\ ValidatorIdle
    /\ LoopIdle
    /\ RegistryIdle
    /\ TriggerIdle
    /\ ConversationIdle
    /\ registry_cache = EmptyRegistryCache
    /\ keys \in SUBSET {PROVIDERS[i] : i \in 1..Len(PROVIDERS)}
    /\ pc = "parse"
    /\ attempt = 1
    /\ attempts = <<>>
    /\ full_prompt = NONE
    /\ response_text = NONE
    /\ llm_calls = 0
    /\ last_call = NoCall
    /\ sleeps = <<>>
    /\ result = NONE
    /\ response = NONE

\* POST /parse-intent
ParseIntent ==
    /\ pc = "parse"
    /\ \E outcomes \in [keys -> ProviderOutcomes], text \in ParseIntentTexts :
          \E r \in {call_llm(keys, outcomes, text)} :
              /\ last_call' = Called(r, outcomes)
              /\ response' = parse_intent(USER_REQUEST, r.ret)
    /\ llm_calls' = llm_calls + 1
    /\ pc' = "done"
    /\ UNCHANGED <<registry_vars, loop_vars, conv_vars, validator_vars, trigger_vars, registry_cache, keys, attempt,
                   attempts, full_prompt, response_text, sleeps, result>>

NextParseIntent == ParseIntent

SpecParseIntent == InitParseIntent /\ [][NextParseIntent]_vars

(***************************************************************************)
(* SpecRegistry: the catalog of the running service.  startup_event        *)
(* fetches the registry once; then POST /refresh-registry fetches it again *)
(* and readers read the cache, in any order.  Every handler is a coroutine *)
(* that never awaits, so each runs to its end before the next starts.      *)
(***************************************************************************)
MaxFetches == 3        \* most fetch_registry calls in one run

PROMPT_TEXT_A == "- fetch_stock_price(symbol)\n- notify(message)\n- condition(if)"
TOOL_NAMES_A == << "fetch_stock_price", "notify", "condition" >>
PROMPT_TEXT_B == "- append_google_sheet(spreadsheetId, range)\n- send_email(to)"
TOOL_NAMES_B == << "append_google_sheet", "send_email" >>

\* what the registry endpoint may give
RegistryReplies ==
    { RegistryFailure("network_error"), RegistryFailure("http_error"),
      RegistryFailure("invalid_json"), JList(<<>>) }
    \cup
    { JDict(Present([promptText |-> t, toolNames |-> n, registryVersion |-> v])) :
        t \in {ABSENT, JStr(""), JStr(PROMPT_TEXT_A)},
        n \in {ABSENT, NONE, JList(<<>>), JList(TOOL_NAMES_A)},
        v \in {ABSENT} }
    \cup
    { JDict(Present([promptText |-> JStr(PROMPT_TEXT_B), toolNames |-> JList(TOOL_NAMES_B),
                     registryVersion |-> JStr("2.1.0")])) }

InitRegistry ==
    /\ ValidatorIdle
    /\ LoopIdle
    /\ TriggerIdle
    /\ ConversationIdle
    /\ RegistryIdle
    /\ registry_cache = EmptyRegistryCache
    /\ keys = {}
    /\ pc = "startup"
    /\ attempt = 1
    /\ attempts = <<>>
    /\ full_prompt = NONE
    /\ response_text = NONE
    /\ llm_calls = 0
    /\ last_call = NoCall
    /\ sleeps = <<>>
    /\ result = NONE
    /\ response = NONE

\* one fetch_registry call against the reply
Fetch(reply) ==
    LET r == fetch_registry(registry_cache, reply)
    IN  /\ registry_cache' = r.cache
        /\ fetched' = [n |-> fetched.n + 1, reply |-> reply, returned |-> r.returned,
                       before |-> registry_cache]

\* startup_event
RegistryStartup ==
    /\ pc = "startup"
    /\ \E reply \in RegistryReplies : Fetch(reply)
    /\ pc' = "serving"
    /\ UNCHANGED <<loop_vars, conv_vars, validator_vars, trigger_vars, seen, keys, attempt,
                   attempts, full_prompt, response_text, llm_calls, last_call, sleeps,
                   result, response>>

\* POST /refresh-registry
RefreshRegistry ==
    /\ pc = "serving"
    /\ fetched.n < MaxFetches
    /\ \E reply \in RegistryReplies :
          /\ Fetch(reply)
          /\ response' = refresh_registry(fetch_registry(registry_cache, reply).returned)
    /\ UNCHANGED <<loop_vars, conv_vars, validator_vars, trigger_vars, seen, keys, pc, attempt,
                   attempts, full_prompt, response_text, llm_calls, last_call, sleeps,
                   result>>

\* a reader: the prompt text build_generation_prompt injects and the tool
\* names the correction prompt and /health list
ReadCatalog ==
    /\ pc = "serving"
    /\ seen' = [prompt_text |-> JStr(get_tool_prompt_text),
                tool_names |-> JList(get_allowed_tool_names)]
    /\ UNCHANGED <<loop_vars, conv_vars, validator_vars, trigger_vars, registry_cache, fetched,
                   keys, pc, attempt, attempts, full_prompt, response_text, llm_calls,
                   last_call, sleeps, result, response>>

NextRegistry == RegistryStartup \/ RefreshRegistry \/ ReadCatalog

SpecRegistry == InitRegistry /\ [][NextRegistry]_vars

(***************************************************************************)
(* SpecCatalog: the two cached lists of operation names and their readers. *)
(* The registry cache of prompts.py is written by startup_event and by     *)
(* POST /refresh-registry and read by get_allowed_tool_names; the list of  *)
(* validator.py is written by refresh_allowed_steps and read by            *)
(* get_allowed_steps.  Refreshes succeed, fail or bring an empty list, in  *)
(* any order.                                                              *)
(***************************************************************************)
\* a reader of the validator's list: get_allowed_steps()
ReadAllowedSteps ==
    /\ pc = "serving"
    /\ allowed_seen' = JList(get_allowed_steps)
    /\ UNCHANGED <<registry_vars, loop_vars, conv_vars, trigger_vars, retry_vars,
                   dynamic_allowed_steps, data, verdict, sanitized>>

NextCatalog ==
    \/ RegistryStartup
    \/ RefreshRegistry
    \/ ReadCatalog
    \/ RefreshAllowedSteps
    \/ ReadAllowedSteps

SpecCatalog == InitRegistry /\ [][NextCatalog]_vars

(***************************************************************************)
(* SpecMerge: ClarificationHandler.merge_context applied to every answer   *)
(* of MergeAnswers, for every awaited field of MergeFields and every       *)
(* previous context of MergeContexts                                       *)
(***************************************************************************)
\* the phrases normalize_interval_response knows
SpokenIntervals ==
    { "every minute", "every 5 minutes", "every 15 minutes", "every 30 minutes",
      "every hour", "hourly", "daily", "weekly" }

\* the names normalize_channel_response knows
SpokenChannels ==
    { "whatsapp", "email", "in-app", "in-app notification", "notification", "sms" }

\* ways a caller may write or say a phrase
Spellings(phrase) ==
    { phrase, str_upper(phrase), str_title(phrase), " " \o phrase,
      "  " \o str_title(phrase) \o " " }

\* the options the question of the intent for the field offers
OptionsOffered(intent, field) ==
    LET options == REQUIRED_FIELDS[intent].questions[field].options
    IN  IF options = NONE THEN {} ELSE { options.val[i] : i \in 1..Len(options.val) }

\* every option of every question of the table, as it is offered
OfferedOptions ==
    UNION { UNION { OptionsOffered(intent, field) :
                        field \in DOMAIN REQUIRED_FIELDS[intent].questions } :
                intent \in DOMAIN REQUIRED_FIELDS }

MergeAnswers ==
    UNION { Spellings(phrase) : phrase \in SpokenIntervals \cup SpokenChannels }
        \cup OfferedOptions
        \cup { "", "every 2 hours", "10m", "telegram", "TSLA" }

MergeFields == { "interval", "notification_channel", "symbol", "query" }

MergeContexts ==
    { EmptyDict,
      Present([intent |-> JStr("stock_monitor")]),
      Present([intent |-> JStr("stock_monitor"), symbol |-> JStr("AAPL"),
               interval |-> JStr("5m")]),
      Present([intent |-> JStr("job_alert"), query |-> JStr("ML Engineer"),
               notification_channel |-> JStr("send_email")]) }

InitMerge ==
    /\ ValidatorIdle
    /\ TriggerIdle
    /\ RetryIdle
    /\ keys = {}
    /\ conv_pc = "merge"
    /\ \E field \in MergeFields, previous \in MergeContexts :
          conv_context = [awaiting_field |-> JStr(field),
                          partial_context |-> JDict(previous)]
    /\ conv_response = NONE
    /\ conv_answers = 0
    /\ conv_llm_calls = 0
    /\ conv_turn = NoTurn

\* ClarificationHandler.merge_context(partial_context, awaiting_field, text)
MergeContext ==
    /\ conv_pc = "merge"
    /\ \E text \in MergeAnswers :
          LET awaiting_field == conv_context["awaiting_field"].val
              partial_context == conv_context["partial_context"].val
          IN  conv_turn' = Turn("merge", awaiting_field, text, partial_context, FALSE,
                                NONE, merge_context(partial_context, awaiting_field, text))
    /\ conv_pc' = "merged"
    /\ UNCHANGED <<registry_vars, loop_vars, validator_vars, trigger_vars, retry_vars, conv_context, conv_response,
                   conv_answers, conv_llm_calls>>

NextMerge == MergeContext

SpecMerge == InitMerge /\ [][NextMerge]_vars

(***************************************************************************)
(* SpecConversation: one conversation with the /conversation endpoint.     *)
(* The caller sends a first request, then answers each question it is      *)
(* asked, sending back the awaiting_field and partial_context it received. *)
(***************************************************************************)
MaxAnswers == 4        \* most answers a caller sends in one conversation

INPUT_MODES == {"text", "voice"}

IntentValues == {ABSENT, JStr("stock_monitor"), JStr("crypto_monitor"),
                 JStr("job_alert"), JStr("price_alert"), JStr("reminder")}

\* what the model extracts as entities on the first turn
EntityInputs ==
    { Present([symbol |-> s, interval |-> i, notification_channel |-> c,
               query |-> o[1], condition |-> o[2], threshold |-> o[3]]) :
        s \in {ABSENT, JStr("aapl"), JNum("7")},
        i \in {ABSENT, JStr("5m")},
        c \in {ABSENT, JStr("whatsapp"), JStr("notification")},
        o \in {<<ABSENT, ABSENT, ABSENT>>,
               <<JStr("ML Engineer"), ABSENT, ABSENT>>,
               <<ABSENT, JStr("above"), JStr("150")>>} }

ExtractionInputs ==
    { Present([intent |-> i, entities |-> JDict(e)]) :
        i \in IntentValues, e \in EntityInputs }

\* the text a provider answers the entity-extraction prompt with
ExtractionTexts ==
    { Text("extraction", 120, JDict(x)) : x \in ExtractionInputs }
        \cup { Text("prose", 60, UNPARSEABLE), Text("42", 2, JNum("42")) }

\* what a caller answers a question with
AnswerValues ==
    { "TSLA", " Daily ", "every 2 hours", "Email", "" }

InitConversation ==
    /\ ValidatorIdle
    /\ TriggerIdle
    /\ RetryIdle
    /\ keys \in {{}, {"Groq"}}
    /\ conv_pc = "first"
    /\ conv_context = EmptyDict
    /\ conv_response = NONE
    /\ conv_answers = 0
    /\ conv_llm_calls = 0
    /\ conv_turn = NoTurn

\* what the caller does with the response: answer the question asked, or stop
conversation_next(reply) ==
    IF reply.kind = "json" /\ "awaiting_field" \in DOMAIN reply.val
    THEN /\ conv_pc' = "asked"
         /\ conv_context' = [awaiting_field |-> JStr(reply.val.awaiting_field),
                             partial_context |-> JDict(reply.val.partial_context)]
    ELSE /\ conv_pc' = "done"
         /\ conv_context' = EmptyDict

\* POST /conversation with no context
ConversationFirstTurn ==
    /\ conv_pc = "first"
    /\ \E input_mode \in INPUT_MODES, text \in ExtractionTexts,
          outcomes \in [keys -> ProviderOutcomes] :
          \E llm_result \in {call_llm(keys, outcomes, text).ret} :
          \E reply \in {conversation_first_turn(llm_result, input_mode)} :
              /\ conv_response' = reply
              /\ conv_turn' = conversation_first_turn_locals(llm_result)
              /\ conv_llm_calls' = conv_llm_calls + 1
              /\ conversation_next(reply)
    /\ UNCHANGED <<registry_vars, loop_vars, validator_vars, trigger_vars, retry_vars, conv_answers>>

\* as ConversationAnswer, with one call of the model for every answer
ConversationAnswer_calls_model ==
    /\ conv_pc = "asked"
    /\ conv_answers < MaxAnswers
    /\ py_truthy(dict_get(conv_context, "awaiting_field", NONE))
    /\ \E input_mode \in INPUT_MODES, text \in AnswerValues :
          \E reply \in {conversation_answer(text, input_mode, conv_context)} :
              /\ conv_response' = reply
              /\ conv_turn' = conversation_answer_locals(text, conv_context)
              /\ conversation_next(reply)
    /\ conv_answers' = conv_answers + 1
    /\ conv_llm_calls' = conv_llm_calls + 1
    /\ UNCHANGED <<registry_vars, loop_vars, validator_vars, trigger_vars, retry_vars>>

\* POST /conversation with the context of the question being answered
ConversationAnswer ==
    /\ conv_pc = "asked"
    /\ conv_answers < MaxAnswers
    /\ py_truthy(dict_get(conv_context, "awaiting_field", NONE))
    /\ \E input_mode \in INPUT_MODES, text \in AnswerValues :
          \E reply \in {conversation_answer(text, input_mode, conv_context)} :
              /\ conv_response' = reply
              /\ conv_turn' = conversation_answer_locals(text, conv_context)
              /\ conversation_next(reply)
    /\ conv_answers' = conv_answers + 1
    /\ UNCHANGED <<registry_vars, loop_vars, validator_vars, trigger_vars, retry_vars, conv_llm_calls>>

NextConversation == ConversationFirstTurn \/ ConversationAnswer

SpecConversation == InitConversation /\ [][NextConversation]_vars

(***************************************************************************)
(* Properties of the generation-retry loop (Spec)                          *)
(***************************************************************************)

\* C1: one generate-automation request performs at most 3 model calls
\* (invocations of call_llm), whatever the model and the providers answer.
C1_AtMostThreeModelCalls == llm_calls <= 3

\* a request that ended after using all three calls
C1_Witness == pc = "done" /\ llm_calls = 3

\* C2: when call_llm raises HTTPException in attempt k, the exception is the
\* outcome of generate_with_retry at once: that call was the last one (k
\* calls in all), no backoff follows it (k - 1 delays in all), no Attempt
\* Record is added, no later attempt starts, and the endpoint answers with it.
C2_ProviderUnavailableIsFatal ==
    last_call.ret.kind = "HTTPException" =>
        /\ pc \in {"raised", "done"}
        /\ result = last_call.ret
        /\ llm_calls = attempt
        /\ Len(sleeps) = attempt - 1
        /\ Len(attempts) = attempt - 1
        /\ pc = "done" => response = result

\* the providers became unavailable in the second attempt
C2_Witness ==
    /\ last_call.ret.kind = "HTTPException"
    /\ attempt = 2
    /\ pc = "done"

\* C9: the correction prompt of attempt N+1 carries exactly the error stored
\* in the Attempt Record of attempt N, and the output stored in that record
\* ("No output" when it stores none), never those of an earlier attempt.
C9_CorrectionUsesPrecedingAttempt ==
    (pc \in {"call", "process"} /\ attempt >= 2) =>
        LET prev == attempts[attempt - 1]
        IN  /\ Len(attempts) = attempt - 1
            /\ prev.attempt = attempt - 1
            /\ full_prompt.kind = "correction"
            /\ full_prompt.error = prev.error
            /\ full_prompt.invalid_output.val.body =
                   (IF text_truthy(prev.raw_output) THEN prev.raw_output.val.body
                    ELSE "No output")

\* the third attempt's prompt, after two attempts that failed differently
C9_Witness ==
    /\ pc = "call"
    /\ attempt = 3
    /\ attempts[1].error # attempts[2].error
    /\ text_truthy(attempts[1].raw_output)
    /\ text_truthy(attempts[2].raw_output)
    /\ attempts[1].raw_output.val.body # attempts[2].raw_output.val.body

\* the failures C10 names: the text does not parse, the object declares an
\* error, or the validator rejects the object
RetryableFailure(text) ==
    \/ text.val.json.kind = "unparseable"
    \/ /\ text.val.json.kind = "dict"
       /\ \/ "error" \in DOMAIN text.val.json.val
          \/ ~validate_automation(text.val.json.val)[1]

\* C10: such a failure in attempt k appends exactly one failed Attempt Record
\* with a non-null error and does not end the request while k < 3: the loop
\* sleeps and starts attempt k + 1.
C10_FailureIsRetried ==
    [][ /\ (pc = "process" /\ RetryableFailure(response_text)) =>
              /\ Len(attempts') = Len(attempts) + 1
              /\ SubSeq(attempts', 1, Len(attempts)) = attempts
              /\ attempts'[Len(attempts')].attempt = attempt
              /\ attempts'[Len(attempts')].status = "failed"
              /\ attempts'[Len(attempts')].error # NONE
              /\ result' = NONE
              /\ pc' = IF attempt < 3 THEN "backoff" ELSE "exhausted"
        /\ pc = "backoff" =>
              /\ pc' = "attempt"
              /\ attempt' = attempt + 1
              /\ attempts' = attempts
              /\ result' = NONE
      ]_vars

\* attempt 3 starts after a declared error and a validator rejection
C10_Witness ==
    /\ pc = "attempt"
    /\ attempt = 3
    /\ Len(attempts) = 2
    /\ str_startswith(attempts[1].error.val, "LLM returned error")
    /\ str_startswith(attempts[2].error.val, "Validation failed")

\* the Attempt Record of an attempt whose output was an explicit error object
DeclaredErrorRecord(record) ==
    str_startswith(record.error.val, "LLM returned error: ")

\* C11: an explicit error object from the model ends the request: after the
\* attempt that received it no further model call is made, no delay is slept,
\* no later attempt starts and no correction prompt is built from it.
C11_ExplicitErrorIsTerminal ==
    /\ \A i \in 1..Len(attempts) :
          DeclaredErrorRecord(attempts[i]) =>
              /\ llm_calls <= i
              /\ Len(sleeps) < i
              /\ attempt = i
    /\ ~(/\ full_prompt.kind = "correction"
          /\ str_startswith(full_prompt.error.val, "LLM returned error: "))

\* generate_with_retry returned success
TerminalSuccess ==
    /\ pc \in {"returned", "done"}
    /\ result.kind = "return"
    /\ result.val.success

\* C13: when attempt k is the first to pass extraction and validation, the
\* result has success=true, attempts=k and a trace of exactly k Attempt
\* Records numbered 1..k, the first k-1 failed and the last success; the
\* automation returned is the output of attempt k, validated and sanitized.
C13_TerminalSuccess ==
    TerminalSuccess =>
        LET k == attempt
            extracted == extract_json_from_response(response_text)
        IN  /\ k \in 1..3
            /\ llm_calls = k
            /\ result.val.attempts = k
            /\ result.val.attempt_details = attempts
            /\ Len(attempts) = k
            /\ \A i \in 1..k :
                  /\ attempts[i].attempt = i
                  /\ attempts[i].status = IF i < k THEN "failed" ELSE "success"
            /\ extracted.kind = "dict"
            /\ "error" \notin DOMAIN extracted.val
            /\ validate_automation(extracted.val)[1]
            /\ result.val.automation = JDict(sanitize_automation(extracted.val))
            /\ {"status", "description"} \subseteq DOMAIN result.val.automation.val

\* the third attempt was the first to pass, and its output lacked status and
\* description
C13_Witness ==
    /\ TerminalSuccess
    /\ attempt = 3
    /\ "status" \notin DOMAIN extract_json_from_response(response_text).val

\* generate_with_retry returned failure
TerminalExhaustion ==
    /\ pc \in {"returned", "done"}
    /\ result.kind = "return"
    /\ ~result.val.success

\* C14: when all 3 attempts fail with retryable failures, the result has
\* success=false, no automation, attempts=3, a trace of exactly 3 failed
\* Attempt Records in attempt order and a headline error equal to the error
\* of the third record; the endpoint answers with that error and that trace.
C14_TerminalExhaustion ==
    /\ (pc = "exhausted" \/ TerminalExhaustion) =>
          /\ attempt = 3
          /\ llm_calls = 3
          /\ Len(attempts) = 3
          /\ \A i \in 1..3 :
                /\ attempts[i].attempt = i
                /\ attempts[i].status = "failed"
                /\ attempts[i].error.kind = "str"
    /\ TerminalExhaustion =>
          /\ result.val.automation = NONE
          /\ result.val.attempts = 3
          /\ result.val.attempt_details = attempts
          /\ result.val.final_error = attempts[3].error
    /\ (TerminalExhaustion /\ pc = "done") =>
          /\ response.kind = "json"
          /\ ~response.val.success
          /\ response.val.error = attempts[3].error
          /\ response.val.attempts = 3
          /\ response.val.attempt_details = attempts

\* three attempts failed for three different reasons and the endpoint answered
C14_Witness ==
    /\ TerminalExhaustion
    /\ pc = "done"
    /\ attempts[1].error # attempts[2].error
    /\ attempts[2].error # attempts[3].error
    /\ attempts[1].error # attempts[3].error

\* C15: whatever the outcome of the request, the answer the caller receives
\* carries the full ordered sequence of Attempt Records accumulated so far
\* (stated for the requests that accumulated at least one record).
C15_TraceAlwaysReturned ==
    (pc = "done" /\ Len(attempts) > 0) =>
        /\ response.kind = "json"
        /\ "attempt_details" \in DOMAIN response.val
        /\ response.val.attempt_details = attempts

\* C16: after failed attempt k < 3 exactly one delay of min(1 * 2^(k-1), 10)
\* is slept (1 after attempt 1, 2 after attempt 2) before attempt k+1 starts;
\* no delay follows a successful attempt or the last attempt; an attempt
\* starts only when the Attempt Records of all earlier attempts are written.
C16_BackoffAndOrdering ==
    /\ Len(sleeps) = attempt - 1
    /\ sleeps = SubSeq(<<1, 2>>, 1, Len(sleeps))
    /\ \A k \in 1..Len(sleeps) :
          /\ sleeps[k] = Min(1 * Pow2(k - 1), 10)
          /\ attempts[k].status = "failed"
    /\ pc \in {"attempt", "call", "process"} => Len(attempts) = attempt - 1
    /\ pc \in {"backoff", "exhausted", "returned"} => Len(attempts) = attempt
    /\ pc = "backoff" => attempt < 3
    /\ \A i \in 1..Len(attempts) : attempts[i].attempt = i

\* the third attempt succeeded after two delays
C16_Witness ==
    /\ TerminalSuccess
    /\ sleeps = <<1, 2>>

(***************************************************************************)
(* Properties of the provider cascade (SpecParseIntent, Spec,              *)
(* SpecConversation)                                                       *)
(***************************************************************************)
\* the configured providers in the order Groq, HuggingFace, OpenRouter, Gemini
ConfiguredInOrder ==
    SelectSeq(<< "Groq", "HuggingFace", "OpenRouter", "Gemini" >>, LAMBDA p : p \in keys)

AllConfiguredRateLimited ==
    /\ llm_calls > 0
    /\ keys # {}
    /\ \A p \in keys : last_call.outcomes[p] = "http_429"

\* the rate-limited failure of call_llm over n providers
RateLimited(e, n) ==
    /\ e.kind = "HTTPException"
    /\ e.val.status_code = 503
    /\ str_startswith(e.val.detail,
                      "All " \o str_of_int(n) \o " AI providers are rate limited (429).")

\* C18: when at least one provider is configured and every configured
\* provider answers HTTP 429, call_llm raises the rate-limited failure
\* (status 503, not 500); generate_with_retry retries nothing after it (no
\* later call, no backoff, no record) and the endpoint answers with that
\* same failure; in the first attempt, after zero retries.
C18_RateLimitedIs503 ==
    AllConfiguredRateLimited =>
        /\ RateLimited(last_call.ret, Cardinality(keys))
        /\ last_call.ret.val.status_code # 500
        /\ pc \in {"raised", "done"}
        /\ llm_calls = attempt
        /\ Len(sleeps) = attempt - 1
        /\ Len(attempts) = attempt - 1
        /\ pc = "done" => response = last_call.ret

\* two providers are configured, both answered 429 to the first call, and
\* the endpoint has answered
C18_Witness ==
    /\ AllConfiguredRateLimited
    /\ Cardinality(keys) = 2
    /\ llm_calls = 1
    /\ sleeps = <<>>
    /\ pc = "done"
    /\ response.val.status_code = 503

\* C19: when every configured provider is rate-limited, the operation that
\* went through the cascade (here the parse-intent endpoint) answers its
\* caller with the rate-limited failure of call_llm (status 503), not with a
\* generic failure.
C19_RateLimitedSurfacedEverywhere ==
    (AllConfiguredRateLimited /\ pc = "done") =>
        /\ response.kind = "HTTPException"
        /\ response.val.status_code = 503
        /\ response = last_call.ret

\* C20: when no provider key is configured, call_llm raises a configuration
\* error without calling any provider, and generate_with_retry propagates it
\* at once: one call in all, no Attempt Record, no backoff, no second
\* attempt, and the endpoint answers with that error.
C20_NoProviderIsConfigurationError ==
    (llm_calls > 0 /\ keys = {}) =>
        /\ last_call.called = <<>>
        /\ last_call.ret.kind = "HTTPException"
        /\ str_startswith(last_call.ret.val.detail, "No AI provider API keys configured.")
        /\ pc \in {"raised", "done"}
        /\ llm_calls = 1
        /\ attempt = 1
        /\ attempts = <<>>
        /\ sleeps = <<>>
        /\ pc = "done" => response = last_call.ret

\* no key is configured and the endpoint has answered the request
C20_Witness ==
    /\ keys = {}
    /\ llm_calls = 1
    /\ pc = "done"
    /\ response.kind = "HTTPException"

(***************************************************************************)
(* Properties of the validator (SpecValidator, SpecTrigger)                *)
(***************************************************************************)
Validated == verdict # <<>>
ReportedValid == Validated /\ verdict[1]
HasStepsList == "steps" \in DOMAIN data /\ data["steps"].kind = "list"

\* every step of the steps list has a type in the list the validation read
StepsWithinVocabulary ==
    \A i \in 1..Len(data["steps"].val) :
        LET step == data["steps"].val[i]
        IN  /\ step.kind = "dict"
            /\ "type" \in DOMAIN step.val
            /\ PyIn(step.val["type"], allowed_seen.val)

\* C3 as stated: every object validate_automation reports valid has only
\* steps whose type is in the Allowed-Operations Set read at validation time.
C3_AsStated == (ReportedValid /\ HasStepsList) => StepsWithinVocabulary

\* C3, amended: every object without an "error" key that validate_automation
\* reports valid has a steps list, and every step of it has a type in the
\* Allowed-Operations Set read at validation time.
C3_VocabularyClosure ==
    (ReportedValid /\ "error" \notin DOMAIN data) =>
        HasStepsList /\ StepsWithinVocabulary

\* an object of two steps accepted against a list fetched from the registry
C3_Witness ==
    /\ ReportedValid
    /\ "error" \notin DOMAIN data
    /\ dynamic_allowed_steps # NONE
    /\ allowed_seen = dynamic_allowed_steps
    /\ Len(data["steps"].val) = 2

\* C8 as stated: every object reported valid has at least one step, and an
\* empty or missing steps list is rejected.
C8_AsStated ==
    Validated =>
        /\ verdict[1] => (HasStepsList /\ Len(data["steps"].val) >= 1)
        /\ ("steps" \notin DOMAIN data \/ (HasStepsList /\ Len(data["steps"].val) = 0))
              => ~verdict[1]

\* C8, amended: every object without an "error" key that is reported valid
\* has at least one step, and such an object with an empty or missing steps
\* list is rejected.
C8_NonEmptyPlan ==
    (Validated /\ "error" \notin DOMAIN data) =>
        /\ verdict[1] => (HasStepsList /\ Len(data["steps"].val) >= 1)
        /\ ("steps" \notin DOMAIN data \/ (HasStepsList /\ Len(data["steps"].val) = 0))
              => ~verdict[1]

\* an object without an "error" key accepted with exactly one step
C8_Witness ==
    /\ ReportedValid
    /\ "error" \notin DOMAIN data
    /\ HasStepsList
    /\ Len(data["steps"].val) = 1

\* C12: validate_automation reports (valid, no error) for every object that
\* has an "error" key, whatever its other fields are, and leaves the object
\* as it was.
C12_ErrorObjectPassesThrough ==
    [][ (verdict = <<>> /\ verdict' # <<>> /\ "error" \in DOMAIN data) =>
            /\ verdict' = <<TRUE, NONE>>
            /\ data' = data
      ]_vars

\* an error object that has no name, a trigger that is no object and a step
\* of no allowed type was validated
C12_Witness ==
    /\ ReportedValid
    /\ "error" \in DOMAIN data
    /\ "name" \notin DOMAIN data
    /\ "trigger" \in DOMAIN data /\ data["trigger"].kind # "dict"
    /\ HasStepsList
    /\ \E i \in 1..Len(data["steps"].val) :
          ~validate_step(data["steps"].val[i], ALLOWED_STEPS)[1]

TriggerValidated == trigger_verdict # <<>>
TriggerIs(type) == "type" \in DOMAIN trigger /\ trigger["type"] = JStr(type)

\* ^\d{1,3}(s|m|h|d|w)$ matched exactly: one to three digits, one unit
\* letter, nothing else
MatchesIntervalPatternExactly(s) ==
    /\ Len(s) \in 2..4
    /\ \A i \in 1..(Len(s) - 1) : CharIn(Char(s, i), DIGITS)
    /\ CharIn(Char(s, Len(s)), INTERVAL_UNITS)

\* C4: every Automation the conversation returns with success=true is accepted
\* by validate_automation: its trigger has a well-formed `every`, every step
\* type is allowed and every step carries the fields its type requires.
ConversationCompleted ==
    /\ conv_response.kind = "json"
    /\ "success" \in DOMAIN conv_response.val
    /\ conv_response.val.success

C4_CompletedAutomationIsValid ==
    ConversationCompleted => validate_automation(conv_response.val.automation)[1]

\* C5: an interval trigger is accepted only if its `every` matches the
\* interval pattern exactly; a missing or non-matching `every` is rejected
\* with a message that names the field.
C5_IntervalShape ==
    (TriggerValidated /\ TriggerIs("interval")) =>
        LET well_formed == /\ "every" \in DOMAIN trigger
                           /\ trigger["every"].kind = "str"
                           /\ MatchesIntervalPatternExactly(trigger["every"].val)
        IN  /\ trigger_verdict[1] => well_formed
            /\ ~well_formed =>
                  /\ ~trigger_verdict[1]
                  /\ \/ str_contains(trigger_verdict[2].val, "every")
                     \/ str_contains(trigger_verdict[2].val, "interval")

\* whether validate_trigger turned the trigger down for its type
TypeRejected ==
    /\ ~trigger_verdict[1]
    /\ str_startswith(trigger_verdict[2].val, "Invalid trigger type")

\* C6: a trigger's type is accepted if and only if it is one of manual,
\* interval, webhook, rss.
C6_TriggerTypes ==
    (TriggerValidated /\ "type" \in DOMAIN trigger) =>
        (~TypeRejected <=> PyIn(trigger["type"], <<"manual", "interval", "webhook", "rss">>))

\* C7: an rss trigger with a url is accepted; one without is rejected with a
\* message naming the url field.
C7_RssNeedsUrl ==
    (TriggerValidated /\ TriggerIs("rss")) =>
        IF "url" \in DOMAIN trigger
        THEN trigger_verdict[1]
        ELSE ~trigger_verdict[1] /\ str_contains(trigger_verdict[2].val, "'url'")

(***************************************************************************)
(* Properties of the clarification conversation (SpecConversation)         *)
(***************************************************************************)
\* the conversation request reached the test of needs_clarification
TurnDecided == conv_turn.decided

\* the context gives no value for the field: no such key, or an empty value
Lacks(context, field) ==
    field \notin DOMAIN context \/ ~py_truthy(context[field])

\* the required fields of the intent, in the order of the table, that the
\* context gives no value for
MissingIn(intent, context) ==
    SelectSeq(get_required_fields(intent).fields, LAMBDA f : Lacks(context, f))

AsksQuestion ==
    /\ conv_response.kind = "json"
    /\ "needs_clarification" \in DOMAIN conv_response.val
    /\ conv_response.val.needs_clarification

\* C21: whenever a required field of the intent is missing from the
\* entities, the response asks one question, the question of the first
\* missing field in the intent's order of required fields, and
\* awaiting_field and missing_field both name that field.
C21_SingleQuestionForFirstMissing ==
    (TurnDecided /\ Len(MissingIn(conv_turn.intent, conv_turn.entities)) > 0) =>
        LET first == MissingIn(conv_turn.intent, conv_turn.entities)[1]
        IN  /\ AsksQuestion
            /\ conv_response.val.missing_field = first
            /\ conv_response.val.awaiting_field = first
            /\ str_startswith(conv_response.val.question,
                   get_missing_field_question(conv_turn.intent, first).question)

\* stock_monitor with only the symbol present: interval is asked, not
\* notification_channel
C21_Witness ==
    /\ TurnDecided
    /\ conv_turn.intent = JStr("stock_monitor")
    /\ DOMAIN conv_turn.entities = {"symbol"}
    /\ AsksQuestion
    /\ conv_response.val.awaiting_field = "interval"

\* the conversation request was answered with a body, not with an exception
\* and not with the success=false body of an unreadable model output
TurnDidNotFail ==
    /\ TurnDecided
    /\ conv_response.kind = "json"

CarriesAutomation ==
    /\ ConversationCompleted
    /\ ~conv_response.val.needs_clarification
    /\ "automation" \in DOMAIN conv_response.val
    /\ {"name", "trigger", "steps"} \subseteq DOMAIN conv_response.val.automation

\* C22: on every conversation turn that does not fail, the response is a
\* clarification question (the conversation stays in collecting) if and only
\* if a required field of the intent has no value in the context accumulated
\* after this turn's merge; otherwise it is a completion carrying an
\* Automation (the conversation is complete). A completion is never
\* returned while a required field has no value.
C22_ClarificationStateMachine ==
    TurnDidNotFail =>
        LET missing == MissingIn(conv_turn.intent, conv_turn.entities)
        IN  /\ AsksQuestion <=> Len(missing) > 0
            /\ AsksQuestion => conv_pc = "asked"
            /\ ~AsksQuestion => (CarriesAutomation /\ conv_pc = "done")
            /\ ConversationCompleted => Len(missing) = 0

\* a conversation asked two questions and completed on the second answer
C22_Witness ==
    /\ TurnDidNotFail
    /\ conv_turn.turn = "answer"
    /\ conv_answers = 2
    /\ CarriesAutomation
    /\ conv_pc = "done"

Merged(field) == conv_turn.turn = "merge" /\ conv_turn.awaiting_field = field

\* the spoken interval phrases and the interval string of each
CanonicalInterval ==
    << <<"every minute", "1m">>, <<"every 5 minutes", "5m">>,
       <<"every 15 minutes", "15m">>, <<"every 30 minutes", "30m">>,
       <<"every hour", "1h">>, <<"hourly", "1h">>, <<"daily", "1d">>,
       <<"weekly", "1w">> >>

\* C24: merging an answer for field interval stores the canonical interval
\* string of a spoken interval phrase (every minute -> 1m, every 5 minutes ->
\* 5m, every 15 minutes -> 15m, every 30 minutes -> 30m, every hour and
\* hourly -> 1h, daily -> 1d, weekly -> 1w), in whatever case the phrase is
\* written and whatever whitespace surrounds it.
C24_SpokenIntervalIsCanonical ==
    Merged("interval") =>
        \A k \in 1..Len(CanonicalInterval) :
            conv_turn.text \in Spellings(CanonicalInterval[k][1]) =>
                conv_turn.entities["interval"] = JStr(CanonicalInterval[k][2])

\* the answer "  Daily " was merged as 1d over an earlier interval of 5m
C24_Witness ==
    /\ Merged("interval")
    /\ conv_turn.text = "  Daily "
    /\ "interval" \in DOMAIN conv_turn.previous
    /\ conv_turn.entities["interval"] = JStr("1d")

CanonicalChannels == { "send_whatsapp", "send_email", "send_notification", "send_sms" }

\* C25: merging any answer for field notification_channel stores one of
\* send_whatsapp, send_email, send_notification, send_sms; an answer that is
\* no spelling of a known channel name is stored as send_notification; and
\* the stored name is in the Allowed-Operations Set of config.py.
C25_ChannelIsCanonicalOperation ==
    Merged("notification_channel") =>
        LET stored == conv_turn.entities["notification_channel"]
        IN  /\ stored.kind = "str"
            /\ stored.val \in CanonicalChannels
            /\ InList(stored.val, ALLOWED_STEPS)
            /\ (\A name \in SpokenChannels : str_strip(str_lower(conv_turn.text)) # name)
                   => stored.val = "send_notification"
            /\ \A name \in CanonicalChannels : InList(name, ALLOWED_STEPS)

\* the answer "SMS" was merged as send_sms
C25_Witness ==
    /\ Merged("notification_channel")
    /\ conv_turn.text = "SMS"
    /\ conv_turn.entities["notification_channel"] = JStr("send_sms")

(***************************************************************************)
(* Properties of the catalog (SpecRegistry, SpecSnapshot)                  *)
(***************************************************************************)
\* the elements of a list
Elements(list) == { list[i] : i \in 1..Len(list) }

\* C26: in every reachable state, also after a successful registry refresh,
\* the step types the validator accepts (get_allowed_steps) are the tool
\* names advertised to the model in the prompts (get_allowed_tool_names).
C26_ValidatorAndPromptsShareTheSet ==
    Elements(get_allowed_steps) = Elements(get_allowed_tool_names)

\* the last fetch_registry call failed: it returned None
FetchFailed == fetched.n > 0 /\ fetched.returned = NONE

FallbackPromptText ==
    str_join("\n", [i \in 1..Len(ALLOWED_STEPS) |-> "- " \o ALLOWED_STEPS[i]])

\* C27: a failed registry fetch (no connection, an error status, an
\* unusable body) leaves the cache (prompt text, tool names, version) exactly
\* at the value it had before the fetch; when the only fetch so far failed,
\* readers get the hardcoded fallback list.
C27_FailedFetchLeavesCache ==
    FetchFailed =>
        /\ registry_cache = fetched.before
        /\ fetched.n = 1 =>
              /\ get_allowed_tool_names = ALLOWED_STEPS
              /\ get_tool_prompt_text = FallbackPromptText

\* a reader has read the catalog
HasRead == seen # NotRead

\* what the reader saw is the prompt text and the tool names of this reply
SeenFrom(reply) ==
    /\ reply.kind = "dict"
    /\ {"promptText", "toolNames"} \subseteq DOMAIN reply.val
    /\ seen.prompt_text = reply.val["promptText"]
    /\ seen.tool_names = reply.val["toolNames"]

SeenFallback ==
    /\ seen.prompt_text = JStr(FallbackPromptText)
    /\ seen.tool_names = JList(ALLOWED_STEPS)

\* the cache entries fetch_registry writes for this reply
WrittenBy(reply) ==
    [prompt_text |-> dict_get(reply.val, "promptText", JStr("")),
     tool_names |-> dict_get(reply.val, "toolNames", JList(<<>>)),
     version |-> dict_get(reply.val, "registryVersion", JStr("unknown"))]

\* C28: whatever the order of refreshes and reads, a reader sees prompt text
\* and tool names that come from one and the same registry response, or both
\* from the fallback; and the cache holds exactly the data of the refresh
\* that wrote last, never a mixture of two responses.
C28_ReadersSeeOneResponse ==
    /\ HasRead => (SeenFallback \/ \E reply \in RegistryReplies : SeenFrom(reply))
    /\ (fetched.n > 0 /\ fetched.reply.kind = "dict") =>
           registry_cache = WrittenBy(fetched.reply)

\* C29: within one validate_automation call every step is checked against
\* the same snapshot of the Allowed-Operations Set, the list read before the
\* first step, even if a refresh of the set completes between the checks of
\* two steps; the result is that of validating the object against that one
\* list.
C29_OneSnapshotPerValidation ==
    /\ \A k \in 1..Len(checked_with) : checked_with[k] = allowed_seen.val
    /\ (verdict # <<>> /\ allowed_seen # NONE) =>
           verdict = validate_automation_with(data, allowed_seen.val)

\* both steps were checked, the set was refreshed after the list was read,
\* and the refreshed list would have given another result
C29_Witness ==
    /\ verdict # <<>>
    /\ Len(checked_with) = 2
    /\ get_allowed_steps # allowed_seen.val
    /\ validate_automation(data) # verdict

(***************************************************************************)
(* The order of validation (SpecValidator)                                 *)
(***************************************************************************)
\* the defects of the validated object, in the order of the specification
NameDefect == "name" \notin DOMAIN data \/ data["name"].kind # "str"
TriggerFieldDefect == "trigger" \notin DOMAIN data \/ data["trigger"].kind # "dict"
StepsFieldDefect == "steps" \notin DOMAIN data \/ data["steps"].kind # "list"
NoStepDefect == Len(data["steps"].val) = 0
TriggerShapeDefect == ~validate_trigger(data["trigger"].val)[1]
StepDefect(i) == ~validate_step(data["steps"].val[i], allowed_seen.val)[1]
DefectiveSteps == {i \in 1..Len(data["steps"].val) : StepDefect(i)}

\* the object reached the checks of its steps and k is its first defective one
FirstDefectiveStep(k) ==
    /\ ~NameDefect /\ ~TriggerFieldDefect /\ ~StepsFieldDefect
    /\ ~NoStepDefect /\ ~TriggerShapeDefect
    /\ k \in DefectiveSteps
    /\ \A j \in DefectiveSteps : k <= j

RequiredOfType ==
    [t \in StepTypes |->
        CASE t = "condition" -> {"if"}
          [] t = "send_email" -> {"to"}
          [] t \in {"send_whatsapp", "send_sms"} -> {"to", "message"}
          [] t \in {"read_google_sheet", "write_google_sheet", "append_google_sheet"}
                -> {"spreadsheetId", "range"}
          [] t = "send_discord" -> {"webhook_url", "message"}
          [] OTHER -> {}]

StepValidated == verdict # <<>>
StepTypeAllowed == InList(data["type"].val, allowed_seen.val)
MissingOfStep == RequiredOfType[data["type"].val] \ DOMAIN data

\* C31: a step whose type is in the allowed set is rejected when a field its
\* type requires is absent, with a message naming the step type and a
\* missing field (condition requires `if`, and a `condition` key does not
\* stand in for it; send_email requires `to`; send_whatsapp and send_sms
\* require `to` and `message`; the sheet read, write and append steps
\* require `spreadsheetId` and `range`), and is accepted when every required
\* field is present.
C31_RequiredFieldsPerType ==
    (StepValidated /\ StepTypeAllowed) =>
        IF MissingOfStep = {}
        THEN verdict = <<TRUE, NONE>>
        ELSE /\ ~verdict[1]
             /\ str_startswith(verdict[2].val, data["type"].val \o " requires '")
             /\ \E f \in MissingOfStep : str_contains(verdict[2].val, "'" \o f \o "'")

\* an append_google_sheet step that a refreshed list allows was rejected for
\* its missing range
C31_Witness ==
    /\ StepValidated
    /\ StepTypeAllowed
    /\ data["type"].val = "append_google_sheet"
    /\ MissingOfStep = {"range"}
    /\ verdict = <<FALSE, JStr("append_google_sheet requires 'range'")>>

\* a condition step carrying a `condition` key and no `if` was rejected
C31_ConditionKeyDoesNotCount ==
    /\ StepValidated
    /\ StepTypeAllowed
    /\ data["type"].val = "condition"
    /\ "condition" \in DOMAIN data
    /\ ~verdict[1]

(***************************************************************************)
(* Properties of sanitize_automation (SpecValidator)                       *)
(***************************************************************************)
Sanitized == sanitized # NONE
StructurallyValid == verdict = <<TRUE, NONE>> /\ "error" \notin DOMAIN data

\* C32: sanitize_automation is idempotent: whether it was applied to the
\* object once, or again to its own result any number of times, the result
\* is the one of the first application, sanitize(sanitize(A)) = sanitize(A),
\* and applying it to a result changes nothing.
C32_SanitizeIsIdempotent ==
    Sanitized =>
        /\ sanitized.val = sanitize_automation(data)
        /\ sanitize_automation(sanitized.val) = sanitized.val

\* a structurally valid object without status and description was sanitized,
\* which gave it both
C32_Witness ==
    /\ Sanitized
    /\ StructurallyValid
    /\ "status" \notin DOMAIN data
    /\ "description" \notin DOMAIN data
    /\ {"status", "description"} \subseteq DOMAIN sanitized.val

(***************************************************************************)
(* Properties of sanitization on the success path (Spec, SpecValidator)    *)
(***************************************************************************)
\* `after` is `before` with its gaps filled: status "draft" and a
\* description derived from the name where the key was absent, every key
\* that was there with the value it had, and no other key
FillsGapsOnly(before, after) ==
    /\ DOMAIN after = DOMAIN before \cup {"status", "description"}
    /\ \A k \in DOMAIN before : after[k] = before[k]
    /\ "status" \notin DOMAIN before => after["status"] = JStr("draft")
    /\ "description" \notin DOMAIN before =>
           after["description"] =
               JStr("Automation: " \o py_str(dict_get(before, "name", JStr("Unnamed"))))

\* generate_with_retry returned success: the automation the model gave and
\* the automation returned
Succeeded == result.kind = "return" /\ result.val.success
GivenAutomation == extract_json_from_response(response_text).val
ReturnedAutomation == result.val.automation.val

\* C33: sanitization only fills gaps: the automation returned with
\* success=true is the validated one with status "draft" added only when it
\* had no status key and a description derived from its name added only when
\* it had no description key, every other field and any status or description
\* of its own unchanged; so every automation returned with success=true, by
\* generate_with_retry and by the endpoint, has both status and description.
C33_SanitizeOnlyFillsGaps ==
    /\ Succeeded =>
           /\ FillsGapsOnly(GivenAutomation, ReturnedAutomation)
           /\ {"status", "description"} \subseteq DOMAIN ReturnedAutomation
    /\ (pc = "done" /\ response.kind = "json" /\ response.val.success) =>
           /\ response.val.automation = result.val.automation
           /\ {"status", "description"} \subseteq DOMAIN response.val.automation.val

\* the endpoint answered with an automation that kept its own status
\* "paused" and was given a description from its name
C33_Witness ==
    /\ pc = "done"
    /\ response.kind = "json"
    /\ response.val.success
    /\ "description" \notin DOMAIN GivenAutomation
    /\ "status" \in DOMAIN GivenAutomation
    /\ GivenAutomation["status"] = JStr("paused")
    /\ response.val.automation.val["status"] = JStr("paused")
    /\ response.val.automation.val["description"] = JStr("Automation: AAPL Pause")

\* the same on every object of the validator's pool, valid or not:
\* sanitize_automation rejects none of them and fills gaps only
SanitizeFillsGapsOnPool ==
    Sanitized => FillsGapsOnly(data, sanitized.val)

(***************************************************************************)
(* Properties of the wording of questions (SpecConversation)               *)
(***************************************************************************)
\* "X", "X, or Y", "X, Y, or Z", ...
RECURSIVE SpokenEnumeration(_)
SpokenEnumeration(options) ==
    IF Len(options) = 1 THEN options[1]
    ELSE IF Len(options) = 2 THEN options[1] \o ", or " \o options[2]
    ELSE options[1] \o ", " \o SpokenEnumeration(Tail(options))

\* the question of the table for the field the response asks about
PlainQuestion ==
    get_missing_field_question(conv_turn.intent, conv_response.val.missing_field).question

HasOptions == conv_response.val.options # NONE

\* C34: a clarification response to a voice-mode caller carries a
\* speech-markup rendering (<speak>...</speak>) and, when the field has
\* options, its question text ends with the options enumerated in spoken
\* form ("You can say X, Y, or Z."); to a text-mode caller the speech-markup
\* is absent and the question text is the plain question, in which no
\* option is enumerated.
C34_QuestionFormattingByMode ==
    AsksQuestion =>
        LET asked == conv_response.val
        IN  IF asked.response_mode = "voice"
            THEN /\ asked.ssml.kind = "str"
                 /\ str_startswith(asked.ssml.val, "<speak>" \o PlainQuestion)
                 /\ HasOptions =>
                       /\ asked.question =
                              PlainQuestion \o " You can say "
                                  \o SpokenEnumeration(asked.options.val) \o "."
                       /\ str_contains(asked.ssml.val,
                              "You can say " \o SpokenEnumeration(asked.options.val)
                                  \o ".</speak>")
                 /\ ~HasOptions => asked.question = PlainQuestion
            ELSE /\ asked.response_mode = "text"
                 /\ asked.ssml = NONE
                 /\ asked.question = PlainQuestion
                 /\ HasOptions =>
                        \A i \in 1..Len(asked.options.val) :
                            ~str_contains(asked.question, asked.options.val[i])

\* a voice caller was asked for the interval of a stock monitor with the
\* four options spoken, after an answer
C34_Witness ==
    /\ AsksQuestion
    /\ conv_turn.turn = "answer"
    /\ conv_response.val.response_mode = "voice"
    /\ conv_response.val.missing_field = "interval"
    /\ conv_response.val.question =
           "How often should I check? You can say Every minute, Every 5 minutes, Every hour, or Daily."

\* a text caller was asked a question that has options
C34_TextWitness ==
    /\ AsksQuestion
    /\ conv_response.val.response_mode = "text"
    /\ HasOptions
    /\ conv_response.val.ssml = NONE

(***************************************************************************)
(* Properties of the correction prompt (Spec)                              *)
(***************************************************************************)
\* attempt N + 1 has its prompt and has not called the model yet, so the
\* last call made is the one of attempt N
CorrectionPromptBuilt == pc = "call" /\ attempt > 1
PreviousRawOutput == last_call.ret

\* C35: the invalid output embedded in the correction prompt of attempt N+1
\* is the first 2000 characters of the raw model output of attempt N, the
\* whole output when it is shorter, or the text "No output" when attempt N
\* produced none.
C35_CorrectionEmbedsFirst2000 ==
    CorrectionPromptBuilt =>
        full_prompt.invalid_output =
            IF text_truthy(PreviousRawOutput)
            THEN str_slice(PreviousRawOutput, INVALID_OUTPUT_LIMIT)
            ELSE NO_OUTPUT

\* what the code does: the output passes through the Attempt Record, which
\* keeps its first 500 characters
C35_CorrectionEmbedsRecordedOutput ==
    CorrectionPromptBuilt =>
        full_prompt.invalid_output =
            IF text_truthy(PreviousRawOutput)
            THEN str_slice(str_slice(PreviousRawOutput, RAW_OUTPUT_LIMIT), INVALID_OUTPUT_LIMIT)
            ELSE NO_OUTPUT

\* an output of 800 characters failed validation and the next prompt embeds
\* 500 characters of it
C35_TruncatedAt500 ==
    /\ CorrectionPromptBuilt
    /\ PreviousRawOutput.val.len = 800
    /\ full_prompt.invalid_output.val.len = 500

(***************************************************************************)
(* Properties of a whole conversation (SpecConversation)                   *)
(***************************************************************************)
\* the last request was an answer to a question
Answered == TurnDecided /\ conv_turn.turn = "answer"

\* the required fields without a value before and after the merge
MissingBefore == MissingIn(conv_turn.intent, conv_turn.previous)
MissingAfter == MissingIn(conv_turn.intent, conv_turn.entities)

\* C36: every answer merged for the awaited field removes that field from
\* the missing set, whatever the answer is (an empty answer included): the
\* number of missing required fields strictly decreases on each answered
\* turn, and the conversation is complete after at most as many answers as
\* the intent has required fields.
C36_EveryAnswerMakesProgress ==
    Answered =>
        /\ ~InList(conv_turn.awaiting_field, MissingAfter)
        /\ Len(MissingAfter) < Len(MissingBefore)
        /\ conv_answers <= Len(get_required_fields(conv_turn.intent).fields)

\* the same, for the answers that are not empty
C36_NonEmptyAnswerMakesProgress ==
    (Answered /\ conv_turn.text # "") =>
        /\ ~InList(conv_turn.awaiting_field, MissingAfter)
        /\ Len(MissingAfter) < Len(MissingBefore)

\* an empty answer was merged and the same question is asked again
C36_EmptyAnswerStalls ==
    /\ Answered
    /\ conv_turn.text = ""
    /\ AsksQuestion
    /\ conv_response.val.missing_field = conv_turn.awaiting_field
    /\ MissingAfter = MissingBefore

(***************************************************************************)
(* Properties of the classification of provider failures (SpecParseIntent) *)
(***************************************************************************)
\* the last call_llm raised the failure with this status
CallLlmRaised(status_code) ==
    /\ llm_calls > 0
    /\ last_call.ret.kind = "HTTPException"
    /\ last_call.ret.val.status_code = status_code

\* every configured provider failed, and one of them otherwise than with
\* HTTP 429
FailedOtherThan429 ==
    /\ llm_calls > 0
    /\ keys # {}
    /\ \A p \in keys : last_call.outcomes[p] # "ok"
    /\ \E p \in keys : last_call.outcomes[p] # "http_429"

\* C37: call_llm raises the rate-limited failure (503) only when every
\* configured provider answered HTTP 429; when at least one configured
\* provider failed for another reason (a timeout, another HTTP status),
\* whatever the text of its error, the failure is the generic one (500).
C37_RateLimitedOnlyWhenAll429 ==
    /\ CallLlmRaised(503) => AllConfiguredRateLimited
    /\ FailedOtherThan429 => CallLlmRaised(500)

\* what the code does: an error counts as rate limited when its text
\* contains "429"
C37_RateLimitedWhenAllErrorsMention429 ==
    CallLlmRaised(503) <=>
        /\ llm_calls > 0
        /\ keys # {}
        /\ \A p \in keys : str_contains(provider_error(last_call.outcomes[p]), "429")

\* no provider answered 429, each answered 502 with a body that mentions
\* 429, and call_llm raised 503
C37_QuotaErrorsRaise503 ==
    /\ CallLlmRaised(503)
    /\ keys = {"Groq", "Gemini"}
    /\ \A p \in keys : last_call.outcomes[p] = "http_502_quota"

(***************************************************************************)
(* Properties of the context across turns (SpecConversation, SpecMerge)    *)
(***************************************************************************)
\* `after` has the keys of `before` and the field, and the value `before`
\* has for every key other than the field
ChangesOnly(field, before, after) ==
    /\ DOMAIN after = DOMAIN before \cup {field}
    /\ \A k \in DOMAIN before \ {field} : after[k] = before[k]

\* C38: merge_context changes only the awaited field: the context it returns
\* has the keys of the previous context and the awaited field, with the
\* value the previous context has for every other key, intent included; the
\* question that follows hands every entity of the context back to the
\* caller; so over any sequence of turns no entity collected on an earlier
\* turn is lost or altered.
C38_MergeChangesOnlyAwaitedField ==
    /\ conv_turn.turn = "answer" =>
           ChangesOnly(conv_turn.awaiting_field, conv_turn.previous, conv_turn.entities)
    /\ (TurnDecided /\ AsksQuestion) =>
           /\ DOMAIN conv_response.val.partial_context = DOMAIN conv_turn.entities \cup {"intent"}
           /\ \A k \in DOMAIN conv_turn.entities :
                  conv_response.val.partial_context[k] = conv_turn.entities[k]
           /\ conv_context["partial_context"].val = conv_response.val.partial_context

\* the second answer of a conversation, for the channel, was merged into a
\* context that held the symbol of the first turn and the interval of the
\* first answer, and both are in the merged context as they were
C38_Witness ==
    /\ conv_turn.turn = "answer"
    /\ conv_answers = 2
    /\ conv_turn.awaiting_field = "notification_channel"
    /\ {"symbol", "interval"} \subseteq DOMAIN conv_turn.previous
    /\ conv_turn.previous["symbol"] = JStr("aapl")
    /\ conv_turn.previous["interval"] = JStr("1d")
    /\ conv_turn.entities["symbol"] = JStr("aapl")
    /\ conv_turn.entities["interval"] = JStr("1d")
    /\ conv_turn.entities["notification_channel"] = JStr("send_email")

\* the same frame on every merge of SpecMerge, where the context the caller
\* sent is still in the state: it is the context before the merge
MergeLeavesPreviousContext ==
    conv_turn.turn = "merge" =>
        /\ conv_turn.previous = conv_context["partial_context"].val
        /\ ChangesOnly(conv_turn.awaiting_field, conv_turn.previous, conv_turn.entities)

(***************************************************************************)
(* Properties of the readers of the two lists (SpecCatalog)                *)
(***************************************************************************)
\* a cached list is unset or empty
UnsetOrEmpty(cached) == cached = NONE \/ cached = JList(<<>>)

\* C39: the Allowed-Operations Set seen by readers is never empty: after any
\* sequence of successful, failed or empty-result refreshes,
\* get_allowed_tool_names and get_allowed_steps return a list that is not
\* empty, and it is the hardcoded list whenever the cached list is unset or
\* empty.
C39_ReadersNeverSeeEmptySet ==
    /\ Len(get_allowed_tool_names) > 0
    /\ Len(get_allowed_steps) > 0
    /\ UnsetOrEmpty(registry_cache.tool_names) => get_allowed_tool_names = ALLOWED_STEPS
    /\ UnsetOrEmpty(dynamic_allowed_steps) => get_allowed_steps = ALLOWED_STEPS
    /\ HasRead => Len(seen.tool_names.val) > 0
    /\ allowed_seen # NONE => Len(allowed_seen.val) > 0

\* after a fetch that filled the cache, a later fetch brought an empty list
\* of tool names and a refresh of the validator's list brought an empty
\* list too; both readers then read the hardcoded list
C39_Witness ==
    /\ fetched.n >= 2
    /\ fetched.before.tool_names = JList(TOOL_NAMES_A)
    /\ registry_cache.tool_names = JList(<<>>)
    /\ dynamic_allowed_steps = JList(<<>>)
    /\ seen.tool_names = JList(ALLOWED_STEPS)
    /\ allowed_seen = JList(ALLOWED_STEPS)

(***************************************************************************)
(* Properties of the options offered (SpecMerge)                           *)
(***************************************************************************)
\* the intents whose question for the field offers the answer as an option
OfferedBy(field, answer) ==
    { intent \in DOMAIN REQUIRED_FIELDS :
        /\ field \in DOMAIN REQUIRED_FIELDS[intent].questions
        /\ answer \in OptionsOffered(intent, field) }

\* the operation each channel option stands for
ChannelOfOption ==
    << <<"WhatsApp", "send_whatsapp">>, <<"Email", "send_email">>,
       <<"In-app notification", "send_notification">> >>

\* C40: every option a clarification question offers for interval or for
\* notification_channel, for every intent of the required-field table,
\* normalizes on merge to a valid canonical value: an interval option to a
\* string matching the interval pattern, a channel option to the allowed
\* operation name of the channel offered.
C40_OfferedOptionsNormalize ==
    /\ (Merged("interval") /\ OfferedBy("interval", conv_turn.text) # {}) =>
           /\ validate_interval_format(conv_turn.entities["interval"])
           /\ validate_trigger(Present([type |-> JStr("interval"),
                                        every |-> conv_turn.entities["interval"]]))[1]
    /\ (Merged("notification_channel")
            /\ OfferedBy("notification_channel", conv_turn.text) # {}) =>
           /\ InList(conv_turn.entities["notification_channel"].val, ALLOWED_STEPS)
           /\ \E k \in 1..Len(ChannelOfOption) :
                  /\ conv_turn.text = ChannelOfOption[k][1]
                  /\ conv_turn.entities["notification_channel"] = JStr(ChannelOfOption[k][2])
    /\ \A intent \in DOMAIN REQUIRED_FIELDS :
           /\ OptionsOffered(intent, "notification_channel") # {}
           /\ "interval" \in DOMAIN REQUIRED_FIELDS[intent].questions =>
                  OptionsOffered(intent, "interval") # {}

\* the option "Every 5 minutes", offered for the interval of a stock monitor,
\* was merged as 5m
C40_Witness ==
    /\ Merged("interval")
    /\ "stock_monitor" \in OfferedBy("interval", conv_turn.text)
    /\ conv_turn.text = "Every 5 minutes"
    /\ conv_turn.entities["interval"] = JStr("5m")

\* the option "In-app notification" was merged as send_notification
C40_ChannelWitness ==
    /\ Merged("notification_channel")
    /\ OfferedBy("notification_channel", conv_turn.text)
           = {"stock_monitor", "crypto_monitor", "price_alert"}
    /\ conv_turn.entities["notification_channel"] = JStr("send_notification")

====
